---- MODULE Spec2Model ----
(***************************************************************************)
(* VEPS event-certification pipeline: the boundary router's concurrent     *)
(* split (Route, RouteBatch), the normalizer, the veto service's validator *)
(* and the context store, modelled from the Go sources.                    *)
(***************************************************************************)
EXTENDS Integers, Sequences, FiniteSets, TLC

(***************************************************************************)
(* Bounds of the model.                                                    *)
(***************************************************************************)
\* largest batch handed to RouteBatch
NumEvents == 2

\* router.go:135, the concurrency limit used when maxConcurrent <= 0
DefaultConcurrency == 10

Slots == 1..NumEvents

\* event ids
EventIds == Slots

(***************************************************************************)
(* Error values.  NoErr is Go's nil error.                                 *)
(***************************************************************************)
NoErr == "nil"
HandlerFailure == "handler failure"
DeadlineExceeded == "context deadline exceeded"
Canceled == "context canceled"

ErrIntegrityFailed == "integrity path failed"
ErrTimeout == "integrity path timeout exceeded"
ErrValidation == "integrity validation failed"

None == "none"

VARIABLES
    \* ---- RouteBatch (router.go:133-161)
    events,          \* the batch: a sequence of event ids
    maxConcurrent,   \* the maxConcurrent argument
    batchPc,         \* "idle", "waiting" (wg.Wait), "returned"
    semaphore,       \* number of tokens held in the semaphore channel
    batchWg,         \* RouteBatch's WaitGroup counter
    results,         \* results[i]: <<>> (nil) or <<j>>, a pointer to the RouteResult of call j
    workerPc,        \* per batch goroutine: "none", "acquire", "route", "done"
    \* ---- Route (router.go:57-130), one call per batch slot
    routePc,         \* "none", "select", "wgwait", "returned"
    result,          \* the RouteResult the call allocated (shared with its goroutines)
    routeCtx,        \* routeCtx: "none", "active", "deadline", "canceled"
    integrityDone,   \* the buffered channel (capacity 1) as a sequence
    routeWg,         \* Route's WaitGroup counter
    integ,           \* integrity goroutine: "none","ready","running","returned","wrote","exited"
    integErr,        \* the error SendToVeto returned
    ctxg,            \* context goroutine: "none","ready","running","returned","exited"
    ctxgErr,         \* the error SendToRDB returned
    ctxgCtx,         \* the context SendToRDB was called with: "background" or "route"
    ctxCalls,        \* number of SendToRDB invocations of the call
    retErr,          \* the error Route returned (None while it has not returned)
    parentCtx,       \* the ctx argument of Route: "active" or "canceled"
    \* ---- history
    firedFirst,      \* the router timeout fired before SendToVeto returned
    \* ---- boundary adapter, POST /ingest (token_cache.go:160-265)
    now,             \* the wall clock, in minutes
    raw,             \* the RawEvent of the request
    event,           \* the normalized event (NoEvent before normalization)
    ingestPc,        \* "idle", "routing", "done"
    httpStatus,      \* the status IngestEvent answered (NoStatus before the answer)
    httpBody,        \* integrity_success / context_success of the 200 answer
    \* ---- veto service, POST /validate (part_008:48-131)
    vetoPc,          \* "idle", "received", "validating", "done"
    vetoReq,         \* the event of the VetoRequest
    vetoPending,     \* vector-clock nodes CheckVectorClockCausality has yet to query
    vetoMissing,     \* its missing slice
    vetoDbErr,       \* a causality query failed
    vetoResp,        \* the response of ValidateEvent (NoResponse before it)
    \* ---- rdb updater and its events table (handler.go:55-122, store.go)
    store,           \* the events table: id -> row
    rdbPc,           \* "idle", "done": UpdateContext for the request's event
    rdbResp,         \* the status UpdateContext answered (NoStatus before)
    \* ---- fracture recorder
    archive,         \* the bucket: object path -> records
    \* ---- requests served by the rdb updater, as its clients saw them
    reqCount,        \* number of requests the rdb updater has accepted
    updLog,          \* per successful POST /update: the event sent, the event GetEvent then returns
    answers,         \* per POST /causality answered: the clock, the answer, the table it ran on
    qDirty,          \* an update landed while the causality query in progress was running
    \* ---- two vector clocks and what Merge made of them
    clockA,          \* the clock a
    clockB,          \* the clock b
    mergedAB,        \* <<a after a.Merge(b)>>, <<>> before the call
    mergedBA,        \* <<b after b.Merge(a)>>
    mergedABB,       \* <<a after a.Merge(b) was called a second time>>
    mergedAA,        \* <<a after a.Merge(a)>>
    eventAgain,      \* the event a second Normalize call on the same raw event returned
    \* ---- the data fracture handler
    frac,            \* per request: the handler's position, its context, its goroutine
    bucket,          \* "up", "down", or "restored" after having been down
    written,         \* the fractures the writer has reported as written
    \* ---- boundary adapter, POST /ingest/batch (token_cache.go:277-356)
    rawEvents,       \* the submitted RawEvents
    ingestBatchPc,   \* "idle", "routing", "done"
    batchResponse,   \* the status and the data IngestBatch answered (NoBatchResponse before)
    \* ---- the token cache and the callers of GetIDToken (token_cache.go:13-82)
    tokens,          \* cache.tokens[audience]: <<>> or <<[token, expiresAt]>>
    tokenSource,     \* cache.tokenSource[audience] exists
    tokenMu,         \* cache.mu: the callers holding the read lock, the caller holding the lock
    tokenPc,         \* per caller: "idle", "reading", "waiting", "refreshing", "returned ..."
    tokenResult,     \* per caller: the token and the error GetIDToken returned
    sourceCalls,     \* the calls of ts.Token() so far: the caller and the token (NoToken on error)
    \* ---- the rate limiter of the API gateway (auth.go:119-184)
    requests,        \* rl.requests: client -> [count, windowStart]
    uncleaned,       \* the map of a limiter given the same Allow calls and never cleaned up
    lastAllow,       \* the last Allow call: the client, its answer, the other limiter's answer
    cleanups,        \* the clients whose entry a cleanup has removed
    \* ---- the order of vector clocks (event.go:80-101)
    clockC,          \* a third clock, next to clockA and clockB
    before,          \* the HappensBefore calls made: <<x, y>> -> what x.HappensBefore(y) returned
    concurrent       \* the IsConcurrent calls made: <<x, y>> -> what x.IsConcurrent(y) returned

routeVars == <<routePc, result, routeCtx, integrityDone, routeWg, integ, integErr,
               ctxg, ctxgErr, ctxgCtx, ctxCalls, retErr, parentCtx, firedFirst>>
batchVars == <<events, maxConcurrent, batchPc, semaphore, batchWg, results, workerPc>>
ingestVars == <<now, raw, event, ingestPc, httpStatus, httpBody>>
vetoVars == <<vetoPc, vetoReq, vetoPending, vetoMissing, vetoDbErr, vetoResp>>
storeVars == <<store, rdbPc, rdbResp>>
histVars == <<reqCount, updLog, answers, qDirty>>
clockVars == <<clockA, clockB, mergedAB, mergedBA, mergedABB, mergedAA, eventAgain>>
fractureVars == <<frac, bucket, written>>
ingestBatchVars == <<rawEvents, ingestBatchPc, batchResponse>>
tokenVars == <<tokens, tokenSource, tokenMu, tokenPc, tokenResult, sourceCalls>>
limiterVars == <<requests, uncleaned, lastAllow, cleanups>>
orderVars == <<clockC, before, concurrent>>
extraVars == <<ingestBatchVars, tokenVars, limiterVars, orderVars>>
auxVars == <<archive, histVars, clockVars, fractureVars, extraVars>>
pipeVars == <<ingestVars, vetoVars, storeVars, auxVars>>
otherVars == <<batchVars, pipeVars>>
vars == <<batchVars, routeVars, pipeVars>>

(***************************************************************************)
(* RouteResult (router.go:45-52); Duration is not modelled.                *)
(***************************************************************************)
NewResult(e) ==
    [Event |-> e, IntegritySuccess |-> FALSE, IntegrityError |-> NoErr,
     ContextSuccess |-> FALSE, ContextError |-> NoErr]

(***************************************************************************)
(* context.Context: Done() and Err() of the two contexts Route hands out.  *)
(***************************************************************************)
\* routeCtx is derived from the caller's ctx (router.go:65): it is done when its own
\* deadline passed, when it was cancelled, or when the caller's ctx is cancelled
CtxState(i, which) ==
    IF which = "background" THEN "active"
    ELSE IF routeCtx[i] = "active" /\ parentCtx = "canceled" THEN "canceled"
    ELSE routeCtx[i]

CtxDone(i, which) == CtxState(i, which) \in {"deadline", "canceled"}

CtxErr(i, which) == IF CtxState(i, which) = "deadline" THEN DeadlineExceeded ELSE Canceled

\* router.go:65-66, defer cancel(): cancelling after the deadline keeps the deadline error
Cancel(st) == IF st = "active" THEN "canceled" ELSE st

(***************************************************************************)
(* The handlers behind the IntegrityHandler / ContextHandler interfaces,   *)
(* as the mock implementations behave: after an arbitrary delay they fail  *)
(* or succeed, and they return ctx.Err() once their context is done.       *)
(***************************************************************************)
HandlerOutcomes(i, which) ==
    {NoErr, HandlerFailure} \cup (IF CtxDone(i, which) THEN {CtxErr(i, which)} ELSE {})

\* router.go:78, the integrity goroutine calls SendToVeto(routeCtx, event)
IntegrityCtx == "route"

\* the context goroutine handing routeCtx, not a detached context, to SendToRDB
ContextCtx_RouteCtx == "route"

\* router.go:92-93, the context goroutine calls SendToRDB(context.Background(), event)
ContextCtx == "background"

(***************************************************************************)
(* Route                                                                   *)
(***************************************************************************)
\* router.go:79-84, what the integrity goroutine records in the shared result
WriteIntegrity(r, e) ==
    IF e # NoErr THEN [r EXCEPT !.IntegrityError = e]
                 ELSE [r EXCEPT !.IntegritySuccess = TRUE]

\* router.go:94-100, what the context goroutine records in the shared result
WriteContext(r, e) ==
    IF e # NoErr THEN [r EXCEPT !.ContextError = e]
                 ELSE [r EXCEPT !.ContextSuccess = TRUE]

\* router.go:107-111: the error Route returns on receiving err from integrityDone
\* (None: no return, Route goes on to wg.Wait)
SelectError(err) == IF err # NoErr THEN ErrIntegrityFailed ELSE None

\* router.go:112-115: the error Route returns when <-routeCtx.Done() is selected
TimeoutError == ErrTimeout

\* a final check that also demands the context path's success
FinalError_NeedsContext(r) ==
    IF ~r.IntegritySuccess \/ ~r.ContextSuccess THEN ErrValidation ELSE NoErr

\* router.go:125-129: the error Route returns once wg.Wait() is over
FinalError(r) == IF ~r.IntegritySuccess THEN ErrValidation ELSE NoErr

\* router.go:57-101: allocate the result, derive routeCtx, start both goroutines
RouteStart(i, e) ==
    /\ routePc[i] = "none"
    /\ routePc' = [routePc EXCEPT ![i] = "select"]
    /\ result' = [result EXCEPT ![i] = NewResult(e)]
    /\ routeCtx' = [routeCtx EXCEPT ![i] = "active"]
    /\ integrityDone' = [integrityDone EXCEPT ![i] = <<>>]
    /\ routeWg' = [routeWg EXCEPT ![i] = 2]
    /\ integ' = [integ EXCEPT ![i] = "ready"]
    /\ ctxg' = [ctxg EXCEPT ![i] = "ready"]
    /\ UNCHANGED <<integErr, ctxgErr, ctxgCtx, ctxCalls, retErr, parentCtx, firedFirst>>

\* context.WithTimeout's timer (router.go:65): the deadline passes
Timeout(i) ==
    /\ CtxState(i, "route") = "active"
    /\ routeCtx' = [routeCtx EXCEPT ![i] = "deadline"]
    /\ firedFirst' = [firedFirst EXCEPT ![i] = integ[i] \in {"ready", "running"}]
    /\ UNCHANGED <<routePc, result, integrityDone, routeWg, integ, integErr,
                   ctxg, ctxgErr, ctxgCtx, ctxCalls, retErr, parentCtx>>
    /\ UNCHANGED otherVars

\* the caller's ctx (the request context handed to Route) is cancelled
ParentCancel ==
    /\ parentCtx = "active"
    /\ \E i \in Slots : routePc[i] # "none"
    /\ parentCtx' = "canceled"
    /\ UNCHANGED <<routePc, result, routeCtx, integrityDone, routeWg, integ, integErr,
                   ctxg, ctxgErr, ctxgCtx, ctxCalls, retErr, firedFirst>>
    /\ UNCHANGED otherVars

\* router.go:78, the call of SendToVeto
IntegrityCall(i) ==
    /\ integ[i] = "ready"
    /\ integ' = [integ EXCEPT ![i] = "running"]
    /\ UNCHANGED <<routePc, result, routeCtx, integrityDone, routeWg, integErr,
                   ctxg, ctxgErr, ctxgCtx, ctxCalls, retErr, parentCtx, firedFirst>>
    /\ UNCHANGED otherVars

\* router.go:78, SendToVeto returns one of the given errors
IntegrityReturns(i, outcomes) ==
    /\ integ[i] = "running"
    /\ \E e \in outcomes :
          integErr' = [integErr EXCEPT ![i] = e]
    /\ integ' = [integ EXCEPT ![i] = "returned"]
    /\ UNCHANGED <<routePc, result, routeCtx, integrityDone, routeWg,
                   ctxg, ctxgErr, ctxgCtx, ctxCalls, retErr, parentCtx, firedFirst>>
    /\ UNCHANGED otherVars

\* router.go:79-84, the integrity goroutine records the outcome in the shared result
IntegrityWrite(i) ==
    /\ integ[i] = "returned"
    /\ result' = [result EXCEPT ![i] = WriteIntegrity(@, integErr[i])]
    /\ integ' = [integ EXCEPT ![i] = "wrote"]
    /\ UNCHANGED <<routePc, routeCtx, integrityDone, routeWg, integErr,
                   ctxg, ctxgErr, ctxgCtx, ctxCalls, retErr, parentCtx, firedFirst>>
    /\ UNCHANGED otherVars

\* router.go:78 and 169-184, SendToVeto of a mock handler returns
IntegrityReturn(i) == IntegrityReturns(i, HandlerOutcomes(i, IntegrityCtx))

\* router.go:72, make(chan error, 1)
IntegrityDoneCap == 1

\* an unbuffered integrityDone channel: no room for a value nobody receives
HasRoom_Unbuffered(ch) == FALSE

\* router.go:72 and 85: a send on the channel does not block
HasRoom(ch) == Len(ch) < IntegrityDoneCap

\* router.go:85 and 77: integrityDone <- err, then the deferred wg.Done()
IntegritySend(i) ==
    /\ integ[i] = "wrote"
    /\ HasRoom(integrityDone[i])
    /\ integrityDone' = [integrityDone EXCEPT ![i] = Append(@, integErr[i])]
    /\ routeWg' = [routeWg EXCEPT ![i] = @ - 1]
    /\ integ' = [integ EXCEPT ![i] = "exited"]
    /\ UNCHANGED <<routePc, result, routeCtx, integErr,
                   ctxg, ctxgErr, ctxgCtx, ctxCalls, retErr, parentCtx, firedFirst>>
    /\ UNCHANGED otherVars

\* router.go:92-93, the call of SendToRDB
ContextCall(i) ==
    /\ ctxg[i] = "ready"
    /\ ctxg' = [ctxg EXCEPT ![i] = "running"]
    /\ ctxgCtx' = [ctxgCtx EXCEPT ![i] = ContextCtx]
    /\ ctxCalls' = [ctxCalls EXCEPT ![i] = @ + 1]
    /\ UNCHANGED <<routePc, result, routeCtx, integrityDone, routeWg, integ, integErr,
                   ctxgErr, retErr, parentCtx, firedFirst>>
    /\ UNCHANGED otherVars

\* router.go:93, SendToRDB returns one of the given errors
ContextReturns(i, outcomes) ==
    /\ ctxg[i] = "running"
    /\ \E e \in outcomes :
          ctxgErr' = [ctxgErr EXCEPT ![i] = e]
    /\ ctxg' = [ctxg EXCEPT ![i] = "returned"]
    /\ UNCHANGED <<routePc, result, routeCtx, integrityDone, routeWg, integ, integErr,
                   ctxgCtx, ctxCalls, retErr, parentCtx, firedFirst>>
    /\ UNCHANGED otherVars

\* router.go:93 and 192-207, SendToRDB of a mock handler returns
ContextReturn(i) == ContextReturns(i, HandlerOutcomes(i, ctxgCtx[i]))

\* router.go:94-100 and 90: record the outcome, then the deferred wg.Done()
ContextWrite(i) ==
    /\ ctxg[i] = "returned"
    /\ result' = [result EXCEPT ![i] = WriteContext(@, ctxgErr[i])]
    /\ routeWg' = [routeWg EXCEPT ![i] = @ - 1]
    /\ ctxg' = [ctxg EXCEPT ![i] = "exited"]
    /\ UNCHANGED <<routePc, routeCtx, integrityDone, integ, integErr,
                   ctxgErr, ctxgCtx, ctxCalls, retErr, parentCtx, firedFirst>>
    /\ UNCHANGED otherVars

\* router.go:105-111: the select receives the integrity goroutine's error
SelectIntegrity(i) ==
    /\ routePc[i] = "select"
    /\ integrityDone[i] # <<>>
    /\ integrityDone' = [integrityDone EXCEPT ![i] = Tail(@)]
    /\ IF SelectError(Head(integrityDone[i])) # None
          THEN /\ routePc' = [routePc EXCEPT ![i] = "returned"]
               /\ retErr' = [retErr EXCEPT ![i] = SelectError(Head(integrityDone[i]))]
               /\ routeCtx' = [routeCtx EXCEPT ![i] = Cancel(@)]
          ELSE /\ routePc' = [routePc EXCEPT ![i] = "wgwait"]
               /\ UNCHANGED <<retErr, routeCtx>>
    /\ UNCHANGED <<result, routeWg, integ, integErr,
                   ctxg, ctxgErr, ctxgCtx, ctxCalls, parentCtx, firedFirst>>
    /\ UNCHANGED otherVars

\* router.go:112-115: the select takes <-routeCtx.Done()
SelectTimeout(i) ==
    /\ routePc[i] = "select"
    /\ CtxDone(i, "route")
    /\ routePc' = [routePc EXCEPT ![i] = "returned"]
    /\ retErr' = [retErr EXCEPT ![i] = TimeoutError]
    /\ routeCtx' = [routeCtx EXCEPT ![i] = Cancel(@)]
    /\ UNCHANGED <<result, integrityDone, routeWg, integ, integErr,
                   ctxg, ctxgErr, ctxgCtx, ctxCalls, parentCtx, firedFirst>>
    /\ UNCHANGED otherVars

\* router.go:118-129: wg.Wait(), then the final check of result.IntegritySuccess
RouteWait(i) ==
    /\ routePc[i] = "wgwait"
    /\ routeWg[i] = 0
    /\ routePc' = [routePc EXCEPT ![i] = "returned"]
    /\ retErr' = [retErr EXCEPT ![i] = FinalError(result[i])]
    /\ routeCtx' = [routeCtx EXCEPT ![i] = Cancel(@)]
    /\ UNCHANGED <<result, integrityDone, routeWg, integ, integErr,
                   ctxg, ctxgErr, ctxgCtx, ctxCalls, parentCtx, firedFirst>>
    /\ UNCHANGED otherVars

\* a direct call of Route for one event (as IngestEvent makes it)
RouteCall(i) ==
    /\ RouteStart(i, events[i])
    /\ UNCHANGED otherVars

(***************************************************************************)
(* Route's two goroutines taken as single steps: the whole body of the     *)
(* integrity goroutine (router.go:76-86) and of the context goroutine      *)
(* (router.go:89-101).  RouteBatch sees a Route call only through its      *)
(* start, its return and the result it shares, so the batch specification  *)
(* runs each goroutine body in one step.                                   *)
(***************************************************************************)
IntegrityRun(i) ==
    /\ integ[i] = "ready"
    /\ HasRoom(integrityDone[i])
    /\ \E e \in HandlerOutcomes(i, IntegrityCtx) :
          /\ integErr' = [integErr EXCEPT ![i] = e]
          /\ result' = [result EXCEPT ![i] = WriteIntegrity(@, e)]
          /\ integrityDone' = [integrityDone EXCEPT ![i] = Append(@, e)]
    /\ routeWg' = [routeWg EXCEPT ![i] = @ - 1]
    /\ integ' = [integ EXCEPT ![i] = "exited"]
    /\ UNCHANGED <<routePc, routeCtx, ctxg, ctxgErr, ctxgCtx, ctxCalls, retErr,
                   parentCtx, firedFirst>>
    /\ UNCHANGED otherVars

ContextRun(i) ==
    /\ ctxg[i] = "ready"
    /\ \E e \in HandlerOutcomes(i, ContextCtx) :
          /\ ctxgErr' = [ctxgErr EXCEPT ![i] = e]
          /\ result' = [result EXCEPT ![i] = WriteContext(@, e)]
    /\ ctxgCtx' = [ctxgCtx EXCEPT ![i] = ContextCtx]
    /\ ctxCalls' = [ctxCalls EXCEPT ![i] = @ + 1]
    /\ routeWg' = [routeWg EXCEPT ![i] = @ - 1]
    /\ ctxg' = [ctxg EXCEPT ![i] = "exited"]
    /\ UNCHANGED <<routePc, routeCtx, integrityDone, integ, integErr, retErr,
                   parentCtx, firedFirst>>
    /\ UNCHANGED otherVars

(***************************************************************************)
(* RouteBatch                                                              *)
(***************************************************************************)
\* a RouteBatch whose semaphore is one wider than asked for
Limit_OneWider(n) == IF n <= 0 THEN DefaultConcurrency ELSE n + 1

\* router.go:134-136
Limit(n) == IF n <= 0 THEN DefaultConcurrency ELSE n

\* the goroutine closing over the loop variable: every result lands in the last slot
ResultIndex_LoopVar(idx) == Len(events)

\* router.go:144 and 155-156: the slot a batch goroutine stores its result in
ResultIndex(idx) == idx

\* router.go:133-157: allocate results and the semaphore, start one goroutine per event
BatchStart ==
    /\ batchPc = "idle"
    /\ batchPc' = "waiting"
    /\ semaphore' = 0
    /\ batchWg' = Len(events)
    /\ results' = [i \in Slots |-> <<>>]
    /\ workerPc' = [i \in Slots |-> IF i <= Len(events) THEN "acquire" ELSE "none"]
    /\ UNCHANGED <<events, maxConcurrent>>
    /\ UNCHANGED <<routeVars, pipeVars>>

\* router.go:148-151: semaphore <- struct{}{}, then r.Route(ctx, evt) starts
WorkerAcquire(i) ==
    /\ workerPc[i] = "acquire"
    /\ semaphore < Limit(maxConcurrent)
    /\ semaphore' = semaphore + 1
    /\ workerPc' = [workerPc EXCEPT ![i] = "route"]
    /\ RouteStart(i, events[i])
    /\ UNCHANGED <<events, maxConcurrent, batchPc, batchWg, results>>
    /\ UNCHANGED pipeVars

\* router.go:151-155 and the deferred 149, 145: store the result, release, wg.Done()
WorkerStore(i) ==
    /\ workerPc[i] = "route"
    /\ routePc[i] = "returned"
    /\ results' = [results EXCEPT ![ResultIndex(i)] = <<i>>]
    /\ semaphore' = semaphore - 1
    /\ batchWg' = batchWg - 1
    /\ workerPc' = [workerPc EXCEPT ![i] = "done"]
    /\ UNCHANGED <<events, maxConcurrent, batchPc>>
    /\ UNCHANGED <<routeVars, pipeVars>>

\* router.go:159-160: wg.Wait() and return results
BatchReturn ==
    /\ batchPc = "waiting"
    /\ batchWg = 0
    /\ batchPc' = "returned"
    /\ UNCHANGED <<events, maxConcurrent, semaphore, batchWg, results, workerPc>>
    /\ UNCHANGED <<routeVars, pipeVars>>

(***************************************************************************)
(* Events and the values they carry.  Time is counted in minutes; the zero *)
(* time.Time is 0.                                                         *)
(***************************************************************************)
\* the wall clock while the modelled requests are served
BaseNow == 120

\* validator.go:227, time.Hour
Hour == 60

\* validator.go:235, 5 * time.Minute
ClockSkew == 5

\* validator.go:175
PaymentLimit == 1000000

\* validator.go:212
WithdrawalLimit == 10000

\* part_002:108-112, the VEPS_NODE_ID of the boundary adapter
Self == "boundary-adapter-1"

NodeX == "nodeX"

\* normalizer.go:84
SchemaVersion == "1.0"

\* a decoded JSON value: a number, or something that is not a number
Num(n) == [kind |-> "number", val |-> n]

NonNumeric == [kind |-> "string", val |-> 0]

Missing == [kind |-> "missing", val |-> 0]

\* the Go type assertion v.(float64) on a decoded JSON value
IsFloat64(v) == v.kind = "number"

\* a JSON string, or the absence of one
Str(s) == [kind |-> "string", val |-> s]

NoStr == [kind |-> "missing", val |-> ""]

\* the Go type assertion v.(string)
IsString(v) == v.kind = "string"

\* the largest counter of a vector clock (int64 in event.go:28), scaled down so that
\* the model checker can count up to it; the wall clock's readings lie well below it
MaxInt64 == 255

MinInt64 == -MaxInt64 - 1

\* the value an int64 holds after arithmetic that left its range (two's complement)
WrapInt64(x) == ((x - MinInt64) % (MaxInt64 - MinInt64 + 1)) + MinInt64

\* normalizer.go:181-182, int64(v) of a float64: exact inside the range of int64;
\* outside it the result depends on the implementation and is the value oor
OutOfRange == {MinInt64, MaxInt64}

ToInt64(v, oor) == IF MinInt64 <= v /\ v <= MaxInt64 THEN v ELSE oor

\* models.VectorClock: a map from node id to counter; an absent key reads 0
EmptyClock == [n \in {} |-> 0]

Get(vc, n) == IF n \in DOMAIN vc THEN vc[n] ELSE 0

\* event.go:66-68
Increment(vc, n) ==
    [m \in DOMAIN vc \cup {n} |-> IF m = n THEN WrapInt64(Get(vc, n) + 1) ELSE vc[m]]

\* event.go:71-77: an entry is taken over only when it is larger than the own one
Merge(vc, other) ==
    LET upd == {n \in DOMAIN other : Get(vc, n) < other[n]}
    IN  [n \in DOMAIN vc \cup upd |-> IF n \in upd THEN other[n] ELSE vc[n]]

\* models.Event (event.go:11-42)
NoEvent ==
    [ID |-> 0, Type |-> "", Source |-> "", Timestamp |-> 0,
     Actor |-> [ID |-> "", Name |-> "", Type |-> ""],
     Evidence |-> [amount |-> Missing],
     VectorClock |-> EmptyClock,
     Metadata |-> [ReceivedAt |-> 0, ProcessedAt |-> 0, BoundaryNode |-> "",
                   CorrelationID |-> "", SchemaVersion |-> ""]]

(***************************************************************************)
(* Normalizer (normalizer.go)                                              *)
(***************************************************************************)
\* normalizer.go:92-139; the error is reported as an actor without ID
extractActor(data) ==
    LET id == IF IsString(data.user_id) THEN data.user_id.val ELSE ""
    IN  [ID |-> id, Name |-> id, Type |-> IF id = "" THEN "" ELSE "user"]

\* normalizer.go:142-164: everything but the reserved keys
extractEvidence(data) == [amount |-> data.amount]

\* the strings uuid.New().String() returns, one per call
UUIDs == <<"uuid-1", "uuid-2", "uuid-3", "uuid-4">>

NewUUID(k) == UUIDs[k]

\* a correlation id that is generated for every event
extractCorrelationID_AlwaysFresh(data, fresh) == fresh

\* normalizer.go:167-172; fresh is the string of the uuid.New() of this call
extractCorrelationID(data, fresh) ==
    IF IsString(data.correlation_id) /\ data.correlation_id.val # ""
        THEN data.correlation_id.val ELSE fresh

\* normalizer.go:175-190: only numeric entries are kept
parseVectorClock(rawvc, oor) ==
    [n \in {m \in DOMAIN rawvc : IsFloat64(rawvc[m])} |-> ToInt64(rawvc[n].val, oor)]

\* normalizer.go:193-212
ValidateSchema(r) ==
    IF r.Source = "" THEN "source field is required"
    ELSE IF ~r.HasData THEN "data field is required"
    ELSE IF ~IsString(r.Data.type) THEN "type field is required in data"
    ELSE IF extractActor(r.Data).ID = "" THEN "invalid actor data"
    ELSE NoErr

\* a Normalize that lets an empty type string through
NormalizeError_AnyType(r) ==
    IF r.Source = "" THEN "source is required"
    ELSE IF ~r.HasData THEN "data is required"
    ELSE IF ~IsString(r.Data.type) THEN "event type is required in data"
    ELSE IF extractActor(r.Data).ID = "" THEN "failed to extract actor"
    ELSE NoErr

\* normalizer.go:33-51, the error Normalize returns
NormalizeError(r) ==
    IF r.Source = "" THEN "source is required"
    ELSE IF ~r.HasData THEN "data is required"
    ELSE IF ~IsString(r.Data.type) \/ r.Data.type.val = "" THEN "event type is required in data"
    ELSE IF extractActor(r.Data).ID = "" THEN "failed to extract actor"
    ELSE NoErr

\* normalizer.go:59-69, the vector clock of the normalized event
NormalizeClock(r, t, node, oor) ==
    LET own == [n \in {node} |-> t]
        merged == IF r.Data.has_vector_clock
                      THEN Merge(own, parseVectorClock(r.Data.vector_clock, oor))
                      ELSE own
    IN  Increment(merged, node)

\* normalizer.go:53-89, the event Normalize returns; id numbers the call, whose
\* uuid.New() results are the event id and the generated correlation id
Normalize(r, t, node, id, oor) ==
    [ID |-> id,
     Type |-> r.Data.type.val,
     Source |-> r.Source,
     Timestamp |-> IF r.Timestamp = 0 THEN t ELSE r.Timestamp,
     Actor |-> extractActor(r.Data),
     Evidence |-> extractEvidence(r.Data),
     VectorClock |-> NormalizeClock(r, t, node, oor),
     Metadata |-> [ReceivedAt |-> t, ProcessedAt |-> 0, BoundaryNode |-> node,
                   CorrelationID |-> extractCorrelationID(r.Data, NewUUID(id)),
                   SchemaVersion |-> SchemaVersion]]

(***************************************************************************)
(* Validator (validator.go)                                                *)
(***************************************************************************)
Reason(text, nodes, amount) == [text |-> text, nodes |-> nodes, amount |-> amount]

NoReason == Reason("", <<>>, 0)

Pass == [Passed |-> TRUE, Reason |-> NoReason]

Fail(reason) == [Passed |-> FALSE, Reason |-> reason]

\* validator.go:105-113: the causality check ends in an error when the store's answer is one
checkCausalityError(e, ans) == Cardinality(DOMAIN e.VectorClock) > 1 /\ ans.err

\* a causality check that also skips clocks of two entries
checkCausality_SkipTwo(e, ans) ==
    IF Cardinality(DOMAIN e.VectorClock) <= 2 THEN Pass
    ELSE IF ~ans.satisfied
        THEN Fail(Reason("causal dependencies not satisfied, missing nodes:", ans.missing, 0))
    ELSE Pass

\* validator.go:103-125; ans is what rdbClient.CheckCausality returned
checkCausality(e, ans) ==
    IF Cardinality(DOMAIN e.VectorClock) <= 1 THEN Pass
    ELSE IF ~ans.satisfied
        THEN Fail(Reason("causal dependencies not satisfied, missing nodes:", ans.missing, 0))
    ELSE Pass

\* validator.go:128-137
checkActorExists(e) == Pass

\* validator.go:157-183
validatePayment(e) ==
    LET a == e.Evidence.amount
    IN  IF ~IsFloat64(a) THEN Fail(Reason("payment amount is missing or invalid", <<>>, 0))
        ELSE IF a.val <= 0 THEN Fail(Reason("payment amount must be positive, got:", <<>>, a.val))
        ELSE IF a.val > PaymentLimit THEN Fail(Reason("payment amount exceeds limit:", <<>>, a.val))
        ELSE Pass

\* validator.go:186-190
validateLogin(e) == Pass

\* a withdrawal ceiling that already rejects the limit itself
validateWithdrawal_AtLimit(e) ==
    LET a == e.Evidence.amount
    IN  IF ~IsFloat64(a) THEN Fail(Reason("withdrawal amount is missing or invalid", <<>>, 0))
        ELSE IF a.val <= 0 THEN Fail(Reason("withdrawal amount must be positive", <<>>, 0))
        ELSE IF a.val >= WithdrawalLimit
            THEN Fail(Reason("withdrawal amount exceeds daily limit:", <<>>, a.val))
        ELSE Pass

\* validator.go:193-220
validateWithdrawal(e) ==
    LET a == e.Evidence.amount
    IN  IF ~IsFloat64(a) THEN Fail(Reason("withdrawal amount is missing or invalid", <<>>, 0))
        ELSE IF a.val <= 0 THEN Fail(Reason("withdrawal amount must be positive", <<>>, 0))
        ELSE IF a.val > WithdrawalLimit
            THEN Fail(Reason("withdrawal amount exceeds daily limit:", <<>>, a.val))
        ELSE Pass

\* validator.go:140-154
checkBusinessRules(e) ==
    CASE e.Type = "payment_processed" -> validatePayment(e)
      [] e.Type = "user_login" -> validateLogin(e)
      [] e.Type = "withdrawal" -> validateWithdrawal(e)
      [] OTHER -> Pass

\* part_003:186-193, the hour of the object path a fracture is written under
HourOf(t) == t \div Hour

\* a temporal check that rejects the two ends of the window
checkTemporal_OpenWindow(e, t) ==
    IF e.Timestamp <= t - Hour
        THEN Fail(Reason("event timestamp is too old (more than 1 hour in the past)", <<>>, 0))
    ELSE IF e.Timestamp >= t + ClockSkew
        THEN Fail(Reason("event timestamp is in the future", <<>>, 0))
    ELSE Pass

\* validator.go:223-243; t is time.Now()
checkTemporal(e, t) ==
    IF e.Timestamp < t - Hour
        THEN Fail(Reason("event timestamp is too old (more than 1 hour in the past)", <<>>, 0))
    ELSE IF e.Timestamp > t + ClockSkew
        THEN Fail(Reason("event timestamp is in the future", <<>>, 0))
    ELSE Pass

ValidationError(check, reason) == [Check |-> check, Reason |-> reason]

\* validator.go:44-49, 56-61, 68-73, 80-85
Collect(errors, check, res) ==
    IF ~res.Passed THEN Append(errors, ValidationError(check, res.Reason)) ELSE errors

\* a validator that stops at the first failing check
Validate_FailFast(e, ans, t) ==
    LET c1 == checkCausality(e, ans)
        c2 == checkActorExists(e)
        c3 == checkBusinessRules(e)
        c4 == checkTemporal(e, t)
        first == IF ~c1.Passed THEN Collect(<<>>, "causality", c1)
                 ELSE IF ~c2.Passed THEN Collect(<<>>, "actor_existence", c2)
                 ELSE IF ~c3.Passed THEN Collect(<<>>, "business_rules", c3)
                 ELSE Collect(<<>>, "temporal", c4)
    IN  IF checkCausalityError(e, ans)
            THEN [passed |-> FALSE, errors |-> <<>>, err |-> "causality check error"]
            ELSE [passed |-> Len(first) = 0, errors |-> first, err |-> NoErr]

\* validator.go:33-94
Validate(e, ans, t) ==
    LET c1 == checkCausality(e, ans)
        e1 == Collect(<<>>, "causality", c1)
        c2 == checkActorExists(e)
        e2 == Collect(e1, "actor_existence", c2)
        c3 == checkBusinessRules(e)
        e3 == Collect(e2, "business_rules", c3)
        c4 == checkTemporal(e, t)
        e4 == Collect(e3, "temporal", c4)
    IN  IF checkCausalityError(e, ans)
            THEN [passed |-> FALSE, errors |-> <<>>, err |-> "causality check error"]
            ELSE [passed |-> Len(e4) = 0, errors |-> e4, err |-> NoErr]

(***************************************************************************)
(* Veto service handler (part_008)                                         *)
(***************************************************************************)
NoResponse == [status |-> 0, event_id |-> 0, Data |-> <<>>]

\* part_008:66-131, the response of ValidateEvent to a request whose validation
\* returned v
ValidateResponse(e, v) ==
    IF v.err # NoErr THEN [status |-> 500, event_id |-> 0, Data |-> <<>>]
    ELSE IF ~v.passed
        THEN [status |-> 412, event_id |-> e.ID,
              Data |-> <<[passed |-> FALSE,
                          failed_checks |-> [k \in 1..Len(v.errors) |-> v.errors[k].Check],
                          reasons |-> [k \in 1..Len(v.errors) |->
                                          <<v.errors[k].Check, v.errors[k].Reason>>]]>>]
    ELSE [status |-> 200, event_id |-> e.ID,
          Data |-> <<[passed |-> TRUE, failed_checks |-> <<>>, reasons |-> <<>>]>>]

(***************************************************************************)
(* Context store (store.go)                                                *)
(***************************************************************************)
EmptyStore == [id \in {} |-> NoEvent]

\* store.go:122-172: INSERT ... ON CONFLICT (id) DO UPDATE; received_at and
\* schema_version are not in the update list
UpsertRow(old, new) ==
    [new EXCEPT !.Metadata.ReceivedAt = old.Metadata.ReceivedAt,
                !.Metadata.SchemaVersion = old.Metadata.SchemaVersion]

\* store.go:110-180; handler.go:84 sets processed_at beforehand
UpsertEvent(st, e, t) ==
    LET row == [e EXCEPT !.Metadata.ProcessedAt =
                            IF e.Metadata.ProcessedAt # 0 THEN e.Metadata.ProcessedAt ELSE t]
    IN  [id \in DOMAIN st \cup {e.ID} |->
            IF id = e.ID THEN (IF id \in DOMAIN st THEN UpsertRow(st[id], row) ELSE row)
            ELSE st[id]]

\* store.go:255-263: SELECT COUNT(*) FROM events WHERE boundary_node = $1 AND
\* (vector_clock->>$1)::bigint <= $2
CountCausal(st, node, ts) ==
    Cardinality({id \in DOMAIN st :
                    /\ st[id].Metadata.BoundaryNode = node
                    /\ node \in DOMAIN st[id].VectorClock
                    /\ st[id].VectorClock[node] <= ts})

(***************************************************************************)
(* Boundary adapter clients (rdb_client.go) and handler (token_cache.go)   *)
(***************************************************************************)
Vetoed == "event vetoed"
UnexpectedStatus == "unexpected status"

\* a client that takes every answer of the veto service for a pass
VetoClientError_AcceptAll(status) == NoErr

\* rdb_client.go:192-211, the error SendToVeto makes of the response status
VetoClientError(status) ==
    IF status = 200 THEN NoErr
    ELSE IF status = 412 THEN Vetoed
    ELSE UnexpectedStatus

\* rdb_client.go:102-113, the error SendToRDB makes of the response status
RDBClientError(status) == IF status # 200 THEN HandlerFailure ELSE NoErr

\* token_cache.go:205-211 and 264, the status IngestEvent answers after Route
IngestStatus(err) == IF err # NoErr THEN 500 ELSE 200

(***************************************************************************)
(* Veto service: POST /validate                                            *)
(***************************************************************************)
\* store.go:273, handler.go:186-212, veto rdb_client.go:155-164: what the veto
\* service's CheckCausality call returns once the store has run its queries
CausalityAnswer ==
    [err |-> vetoDbErr, satisfied |-> Len(vetoMissing) = 0, missing |-> vetoMissing]

\* part_008:48-79, validator.go:33-40 and 103-110: the handler checks the request and
\* starts Validate, whose causality check asks the store unless the clock has at
\* most one entry
VetoStart ==
    /\ vetoPc = "received"
    /\ IF vetoReq.Type = ""
          THEN /\ vetoResp' = [status |-> 400, event_id |-> 0, Data |-> <<>>]
               /\ vetoPc' = "done"
               /\ vetoPending' = {}
          ELSE /\ vetoPc' = "validating"
               /\ vetoPending' = IF Cardinality(DOMAIN vetoReq.VectorClock) <= 1
                                    THEN {} ELSE DOMAIN vetoReq.VectorClock
               /\ UNCHANGED vetoResp
    /\ vetoMissing' = <<>>
    /\ vetoDbErr' = FALSE
    /\ UNCHANGED <<vetoReq, batchVars, routeVars, ingestVars, storeVars, auxVars>>

\* store.go:254-271: one iteration of the loop over the clock (Go iterates the map in
\* any order); each iteration is a query of its own
CausalityQuery(n) ==
    /\ vetoPc = "validating"
    /\ n \in vetoPending
    /\ \/ /\ vetoMissing' = IF CountCausal(store, n, vetoReq.VectorClock[n]) = 0
                               THEN Append(vetoMissing, n) ELSE vetoMissing
          /\ vetoPending' = vetoPending \ {n}
          /\ UNCHANGED vetoDbErr
       \/ /\ vetoDbErr' = TRUE
          /\ vetoPending' = {}
          /\ UNCHANGED vetoMissing
    /\ UNCHANGED <<vetoPc, vetoReq, vetoResp, batchVars, routeVars, ingestVars, storeVars,
                   auxVars>>

\* validator.go:40-94 and part_008:79-131: the remaining checks and the response
VetoRespond ==
    /\ vetoPc = "validating"
    /\ vetoPending = {}
    /\ vetoResp' = ValidateResponse(vetoReq, Validate(vetoReq, CausalityAnswer, now))
    /\ vetoPc' = "done"
    /\ UNCHANGED <<vetoReq, vetoPending, vetoMissing, vetoDbErr, batchVars, routeVars,
                   ingestVars, storeVars, auxVars>>

\* the request SendToVeto posted (rdb_client.go:147-186) reaches the veto service
VetoReceive(i) ==
    /\ vetoPc = "idle"
    /\ integ[i] \in {"running", "returned", "wrote", "exited"}
    /\ vetoReq' = event
    /\ vetoPc' = "received"
    /\ UNCHANGED <<vetoPending, vetoMissing, vetoDbErr, vetoResp, batchVars, routeVars,
                   ingestVars, storeVars, auxVars>>

\* rdb_client.go:186-211: SendToVeto returns the error made of the response, the error
\* of its context once that is done, or a transport failure
SendToVetoOutcomes(i) ==
    (IF vetoResp.status # 0 THEN {VetoClientError(vetoResp.status)} ELSE {})
        \cup (IF CtxDone(i, IntegrityCtx) THEN {CtxErr(i, IntegrityCtx)} ELSE {})
        \cup {HandlerFailure}

SendToVetoReturn(i) == IntegrityReturns(i, SendToVetoOutcomes(i))

(***************************************************************************)
(* RDB updater: POST /update                                               *)
(***************************************************************************)
\* handler.go:55-122: the request SendToRDB posted is served: processed_at is set and
\* the event upserted, or the upsert fails and the answer is 500
UpdateContext(i) ==
    /\ rdbPc = "idle"
    /\ ctxg[i] \in {"running", "returned", "exited"}
    /\ \/ /\ store' = UpsertEvent(store, [event EXCEPT !.Metadata.ProcessedAt = now], now)
          /\ rdbResp' = 200
       \/ /\ rdbResp' = 500
          /\ UNCHANGED store
    /\ rdbPc' = "done"
    /\ UNCHANGED <<batchVars, routeVars, ingestVars, vetoVars, auxVars>>

\* handler.go:55-122 serving the update of another request's event e
UpdateContextOther(e) ==
    /\ e.ID \notin DOMAIN store
    /\ store' = UpsertEvent(store, [e EXCEPT !.Metadata.ProcessedAt = now], now)
    /\ UNCHANGED <<rdbPc, rdbResp, batchVars, routeVars, ingestVars, vetoVars, auxVars>>

\* rdb_client.go:96-113
SendToRDBOutcomes(i) ==
    (IF rdbResp # 0 THEN {RDBClientError(rdbResp)} ELSE {})
        \cup (IF CtxDone(i, ctxgCtx[i]) THEN {CtxErr(i, ctxgCtx[i])} ELSE {})
        \cup {HandlerFailure}

SendToRDBReturn(i) == ContextReturns(i, SendToRDBOutcomes(i))

(***************************************************************************)
(* Boundary adapter: POST /ingest                                          *)
(***************************************************************************)
\* uuid.New() (normalizer.go:73): an id no stored event has
NewID(st) == CHOOSE n \in 1..(Cardinality(DOMAIN st) + 1) : n \notin DOMAIN st

NoBody == [integrity_success |-> FALSE, context_success |-> FALSE]

\* token_cache.go:186-196: schema validation or normalization fails, 400
IngestReject ==
    /\ ingestPc = "idle"
    /\ ValidateSchema(raw) # NoErr \/ NormalizeError(raw) # NoErr
    /\ httpStatus' = 400
    /\ ingestPc' = "done"
    /\ UNCHANGED <<now, raw, event, httpBody, batchVars, routeVars, vetoVars, storeVars,
                   auxVars>>

\* token_cache.go:186-205: the event is normalized and Route is called
IngestAccept(i) ==
    /\ ingestPc = "idle"
    /\ ValidateSchema(raw) = NoErr
    /\ NormalizeError(raw) = NoErr
    /\ \E oor \in OutOfRange : event' = Normalize(raw, now, Self, NewID(store), oor)
    /\ ingestPc' = "routing"
    /\ RouteStart(i, NewID(store))
    /\ UNCHANGED <<now, raw, httpStatus, httpBody, batchVars, vetoVars, storeVars, auxVars>>

\* token_cache.go:205-264: Route has returned, the request is answered
IngestRespond(i) ==
    /\ ingestPc = "routing"
    /\ routePc[i] = "returned"
    /\ httpStatus' = IngestStatus(retErr[i])
    /\ httpBody' = IF retErr[i] = NoErr
                      THEN [integrity_success |-> result[i].IntegritySuccess,
                            context_success |-> result[i].ContextSuccess]
                      ELSE NoBody
    /\ ingestPc' = "done"
    /\ UNCHANGED <<now, raw, event, batchVars, routeVars, vetoVars, storeVars, auxVars>>

(***************************************************************************)
(* Initial values.                                                         *)
(***************************************************************************)
RouteInit ==
    /\ routePc = [i \in Slots |-> "none"]
    /\ result = [i \in Slots |-> NewResult(0)]
    /\ routeCtx = [i \in Slots |-> "none"]
    /\ integrityDone = [i \in Slots |-> <<>>]
    /\ routeWg = [i \in Slots |-> 0]
    /\ integ = [i \in Slots |-> "none"]
    /\ integErr = [i \in Slots |-> None]
    /\ ctxg = [i \in Slots |-> "none"]
    /\ ctxgErr = [i \in Slots |-> None]
    /\ ctxgCtx = [i \in Slots |-> None]
    /\ ctxCalls = [i \in Slots |-> 0]
    /\ retErr = [i \in Slots |-> None]
    /\ parentCtx = "active"
    /\ firedFirst = [i \in Slots |-> FALSE]

BatchIdle ==
    /\ batchPc = "idle"
    /\ semaphore = 0
    /\ batchWg = 0
    /\ results = [i \in Slots |-> <<>>]
    /\ workerPc = [i \in Slots |-> "none"]

(***************************************************************************)
(* Requests and store contents the specifications start from.              *)
(***************************************************************************)
RawData(type, amount, hasvc, vc) ==
    [type |-> type, user_id |-> Str("user-1"), amount |-> amount,
     has_vector_clock |-> hasvc, vector_clock |-> vc, correlation_id |-> NoStr]

RawEvent(source, type, amount, hasvc, vc, ts) ==
    [Source |-> source, HasData |-> TRUE, Data |-> RawData(type, amount, hasvc, vc),
     Timestamp |-> ts]

NoRaw == [RawEvent("", NoStr, Missing, FALSE, EmptyClock, 0) EXCEPT !.HasData = FALSE]

\* the data.vector_clock values of the requests: none, {nodeX: c} for a positive, a
\* zero and a non-numeric c
RawClocks ==
    {<<FALSE, EmptyClock>>,
     <<TRUE, [n \in {NodeX} |-> Num(5)]>>,
     <<TRUE, [n \in {NodeX} |-> Num(0)]>>,
     <<TRUE, [n \in {NodeX} |-> NonNumeric]>>}

IngestInputs ==
    {RawEvent("client", Str("payment_processed"), am, c[1], c[2], ts) :
        am \in {Num(1), Num(0)}, c \in RawClocks, ts \in {0, BaseNow - (Hour \div 2)}}
    \cup {RawEvent("", Str("payment_processed"), Num(1), FALSE, EmptyClock, 0),
          RawEvent("client", NoStr, Num(1), FALSE, EmptyClock, 0),
          RawEvent("client", Str(""), Num(1), FALSE, EmptyClock, 0),
          [RawEvent("client", Str("payment_processed"), Num(1), FALSE, EmptyClock, 0)
              EXCEPT !.HasData = FALSE],
          [RawEvent("client", Str("payment_processed"), Num(1), FALSE, EmptyClock, 0)
              EXCEPT !.Data.user_id = NoStr]}

\* an event as a boundary adapter normalizes it
StoredEvent(id, type, amount, vc, ts, node) ==
    [ID |-> id, Type |-> type, Source |-> "client", Timestamp |-> ts,
     Actor |-> [ID |-> "user-1", Name |-> "user-1", Type |-> "user"],
     Evidence |-> [amount |-> amount],
     VectorClock |-> vc,
     Metadata |-> [ReceivedAt |-> ts, ProcessedAt |-> 0, BoundaryNode |-> node,
                   CorrelationID |-> "generated", SchemaVersion |-> SchemaVersion]]

\* earlier events: one of this boundary adapter, one of nodeX
PriorSelf ==
    StoredEvent(1, "user_login", Missing, [n \in {Self} |-> BaseNow - 10], BaseNow - 10, Self)

PriorX ==
    StoredEvent(2, "user_login", Missing, [n \in {NodeX} |-> 3], BaseNow - 10, NodeX)

Priors == {PriorSelf, PriorX}

StoreOf(S) ==
    [id \in {e.ID : e \in S} |->
        [(CHOOSE e \in S : e.ID = id) EXCEPT !.Metadata.ProcessedAt = BaseNow - 10]]

Stores == {StoreOf(S) : S \in SUBSET Priors}

Amounts ==
    {Missing, NonNumeric, Num(0 - 1), Num(0), Num(1),
     Num(WithdrawalLimit), Num(WithdrawalLimit + 1),
     Num(PaymentLimit), Num(PaymentLimit + 1)}

ValidateInputs ==
    {StoredEvent(3, ty, am, vc, ts, Self) :
        ty \in {"payment_processed", "withdrawal", "user_login", "refund", ""},
        am \in Amounts,
        vc \in {[n \in {Self} |-> BaseNow], [n \in {Self, NodeX} |-> IF n = Self THEN BaseNow ELSE 5]},
        ts \in {BaseNow - Hour - 1, BaseNow - Hour, BaseNow,
                BaseNow + ClockSkew, BaseNow + ClockSkew + 1}}

EmptyArchive == <<>>

ClockIdle ==
    /\ mergedAB = <<>>
    /\ mergedBA = <<>>
    /\ mergedABB = <<>>
    /\ mergedAA = <<>>
    /\ eventAgain = NoEvent

\* number of requests the fracture handler serves
NumFractureRequests == 2

FractureSlots == 1..NumFractureRequests

\* a request slot of the fracture handler before its request arrives
NoFracture ==
    [pc |-> "none", ctx |-> "none", task |-> "none", batch |-> FALSE, events |-> <<>>,
     pending |-> {}, status |-> 0, count |-> 0, logged |-> FALSE, attempts |-> 0,
     err |-> NoErr]

FractureIdle ==
    /\ frac = [r \in FractureSlots |-> NoFracture]
    /\ bucket = "up"
    /\ written = {}

\* IngestBatch has answered nothing yet
NoBatchResponse == [status |-> 0, total |-> 0, succeeded |-> 0, failed |-> 0]

\* no POST /ingest/batch request
IngestBatchIdle ==
    /\ rawEvents = <<>>
    /\ ingestBatchPc = "idle"
    /\ batchResponse = NoBatchResponse

\* token_cache.go:33 and 61: GetIDToken's callers and the "" it returns with an error
NumCallers == 3
Callers == 1..NumCallers
NoToken == 0 - 1
NoTokenResult == [token |-> NoToken, err |-> None]

\* no caller of GetIDToken, an empty cache (token_cache.go:26-30)
TokenIdle ==
    /\ tokens = <<>>
    /\ tokenSource = FALSE
    /\ tokenMu = [readers |-> {}, writer |-> 0]
    /\ tokenPc = [c \in Callers |-> "idle"]
    /\ tokenResult = [c \in Callers |-> NoTokenResult]
    /\ sourceCalls = <<>>

\* auth.go:132-135: a new rate limiter
LimiterIdle ==
    /\ requests = [c \in {} |-> [count |-> 0, windowStart |-> 0]]
    /\ uncleaned = [c \in {} |-> [count |-> 0, windowStart |-> 0]]
    /\ lastAllow = [client |-> "", allowed |-> TRUE, uncleaned |-> TRUE]
    /\ cleanups = {}

OrderIdle ==
    /\ clockC = EmptyClock
    /\ before = <<>>
    /\ concurrent = <<>>

ExtraIdle ==
    /\ OrderIdle
    /\ IngestBatchIdle
    /\ TokenIdle
    /\ LimiterIdle

AuxIdle ==
    /\ archive = EmptyArchive
    /\ reqCount = 0
    /\ updLog = <<>>
    /\ answers = <<>>
    /\ qDirty = FALSE
    /\ clockA = EmptyClock
    /\ clockB = EmptyClock
    /\ ClockIdle
    /\ FractureIdle

IngestIdle ==
    /\ now = BaseNow
    /\ event = NoEvent
    /\ ingestPc = "idle"
    /\ httpStatus = 0
    /\ httpBody = NoBody

VetoIdle ==
    /\ vetoPc = "idle"
    /\ vetoReq = NoEvent
    /\ vetoPending = {}
    /\ vetoMissing = <<>>
    /\ vetoDbErr = FALSE
    /\ vetoResp = NoResponse

StoreIdle ==
    /\ rdbPc = "idle"
    /\ rdbResp = 0

PipeIdle ==
    /\ IngestIdle
    /\ raw = NoRaw
    /\ VetoIdle
    /\ StoreIdle
    /\ store = EmptyStore
    /\ AuxIdle
    /\ ExtraIdle

(***************************************************************************)
(* Spec: one Route call, its two goroutines step by step, against any      *)
(* pair of handlers.                                                       *)
(***************************************************************************)
Init ==
    /\ \E e \in EventIds : events = <<e>>
    /\ maxConcurrent = 0
    /\ BatchIdle
    /\ RouteInit
    /\ PipeIdle

Next ==
    \/ RouteCall(1)
    \/ Timeout(1)
    \/ ParentCancel
    \/ IntegrityCall(1)
    \/ IntegrityReturn(1)
    \/ IntegrityWrite(1)
    \/ IntegritySend(1)
    \/ ContextCall(1)
    \/ ContextReturn(1)
    \/ ContextWrite(1)
    \/ SelectIntegrity(1)
    \/ SelectTimeout(1)
    \/ RouteWait(1)

Spec == Init /\ [][Next]_vars

(***************************************************************************)
(* SpecBatch: RouteBatch over a batch of up to NumEvents events.           *)
(***************************************************************************)
InitBatch ==
    /\ \E n \in 0..NumEvents : events = [i \in 1..n |-> i]
    /\ maxConcurrent \in 0..(NumEvents - 1)
    /\ BatchIdle
    /\ RouteInit
    /\ PipeIdle

NextBatch ==
    \/ BatchStart
    \/ \E i \in Slots : WorkerAcquire(i)
    \/ \E i \in Slots : Timeout(i)
    \/ \E i \in Slots : IntegrityRun(i)
    \/ \E i \in Slots : ContextRun(i)
    \/ \E i \in Slots : SelectIntegrity(i)
    \/ \E i \in Slots : SelectTimeout(i)
    \/ \E i \in Slots : RouteWait(i)
    \/ \E i \in Slots : WorkerStore(i)
    \/ BatchReturn

SpecBatch == InitBatch /\ [][NextBatch]_vars

(***************************************************************************)
(* SpecBatchFair: RouteBatch under Go's scheduler.  A goroutine that can   *)
(* take its next step takes it; a handler that was called returns (its     *)
(* return is part of the goroutine's step).  The router timeout may or may *)
(* not fire.                                                               *)
(***************************************************************************)
InitBatchFair ==
    /\ \E n \in 1..NumEvents : events = [i \in 1..n |-> i]
    /\ maxConcurrent = 1
    /\ BatchIdle
    /\ RouteInit
    /\ PipeIdle

BatchFairness ==
    /\ WF_vars(BatchStart)
    /\ WF_vars(BatchReturn)
    /\ \A i \in Slots :
          /\ WF_vars(WorkerAcquire(i))
          /\ WF_vars(IntegrityRun(i))
          /\ WF_vars(ContextRun(i))
          /\ WF_vars(SelectIntegrity(i) \/ SelectTimeout(i))
          /\ WF_vars(RouteWait(i))
          /\ WF_vars(WorkerStore(i))

SpecBatchFair == InitBatchFair /\ [][NextBatch]_vars /\ BatchFairness

(***************************************************************************)
(* SpecIngestBatch: one POST /ingest/batch request, from the decoded batch *)
(* to the answer, with RouteBatch routing its events.                      *)
(***************************************************************************)
\* token_cache.go:298, the largest batch IngestBatch accepts
MaxBatchSize == 100

\* token_cache.go:318, the concurrency IngestBatch asks of RouteBatch
IngestBatchConcurrency == 10

\* a handler that checks the first submission only
BatchError_FirstOnly(rs) ==
    IF Len(rs) = 0 THEN "batch cannot be empty"
    ELSE IF Len(rs) > MaxBatchSize THEN "batch size exceeds maximum of 100 events"
    ELSE IF ValidateSchema(rs[1]) # NoErr \/ NormalizeError(rs[1]) # NoErr
        THEN "event rejected"
    ELSE NoErr

\* token_cache.go:293-316: the size checks, then the first event that fails
\* ValidateSchema or Normalize
BatchError(rs) ==
    IF Len(rs) = 0 THEN "batch cannot be empty"
    ELSE IF Len(rs) > MaxBatchSize THEN "batch size exceeds maximum of 100 events"
    ELSE IF \E k \in 1..Len(rs) : ValidateSchema(rs[k]) # NoErr \/ NormalizeError(rs[k]) # NoErr
        THEN "event rejected"
    ELSE NoErr

\* token_cache.go:321-330: the results whose IntegritySuccess flag is set
SucceededResults ==
    {k \in 1..Len(events) : results[k] # <<>> /\ result[results[k][1]].IntegritySuccess}

\* an IngestBatch that answers 200 whatever failed
BatchStatus_AlwaysOK(failCount) == 200

\* token_cache.go:348-351
BatchStatus(failCount) == IF failCount > 0 THEN 207 ELSE 200

\* token_cache.go:293-316: a size violation or a malformed event, 400
IngestBatchReject ==
    /\ ingestBatchPc = "idle"
    /\ BatchError(rawEvents) # NoErr
    /\ batchResponse' = [NoBatchResponse EXCEPT !.status = 400]
    /\ ingestBatchPc' = "done"
    /\ UNCHANGED rawEvents
    /\ UNCHANGED <<batchVars, routeVars, ingestVars, vetoVars, storeVars, archive, histVars,
                   clockVars, fractureVars, tokenVars, limiterVars, orderVars>>

\* token_cache.go:303-318: every event is normalized; RouteBatch is about to be called
IngestBatchNormalize ==
    /\ ingestBatchPc = "idle"
    /\ BatchError(rawEvents) = NoErr
    /\ events' = [k \in 1..Len(rawEvents) |-> k]
    /\ maxConcurrent' = IngestBatchConcurrency
    /\ ingestBatchPc' = "routing"
    /\ UNCHANGED <<rawEvents, batchResponse>>
    /\ UNCHANGED <<batchPc, semaphore, batchWg, results, workerPc>>
    /\ UNCHANGED <<routeVars, ingestVars, vetoVars, storeVars, archive, histVars,
                   clockVars, fractureVars, tokenVars, limiterVars, orderVars>>

\* token_cache.go:318: h.router.RouteBatch(r.Context(), events, 10)
IngestBatchRoute ==
    /\ ingestBatchPc = "routing"
    /\ BatchStart

\* token_cache.go:320-355: count the results by their flag and answer
IngestBatchRespond ==
    /\ ingestBatchPc = "routing"
    /\ batchPc = "returned"
    /\ LET successCount == Cardinality(SucceededResults)
           failCount == Len(events) - successCount
       IN batchResponse' = [status |-> BatchStatus(failCount), total |-> Len(rawEvents),
                            succeeded |-> successCount, failed |-> failCount]
    /\ ingestBatchPc' = "done"
    /\ UNCHANGED rawEvents
    /\ UNCHANGED <<batchVars, routeVars, ingestVars, vetoVars, storeVars, archive, histVars,
                   clockVars, fractureVars, tokenVars, limiterVars, orderVars>>

\* a well-formed submission and one without a source
BatchRaws ==
    {RawEvent("client", Str("payment_processed"), Num(1), FALSE, EmptyClock, 0),
     RawEvent("", Str("payment_processed"), Num(1), FALSE, EmptyClock, 0)}

\* the batches submitted: up to NumEvents submissions, and one more than the cap
BatchInputs ==
    UNION {[1..n -> BatchRaws] : n \in 0..NumEvents}
    \cup {[k \in 1..(MaxBatchSize + 1) |->
              RawEvent("client", Str("payment_processed"), Num(1), FALSE, EmptyClock, 0)]}

InitIngestBatch ==
    /\ events = <<>>
    /\ maxConcurrent = 0
    /\ BatchIdle
    /\ RouteInit
    /\ IngestIdle
    /\ raw = NoRaw
    /\ VetoIdle
    /\ StoreIdle
    /\ store = EmptyStore
    /\ AuxIdle
    /\ rawEvents \in BatchInputs
    /\ ingestBatchPc = "idle"
    /\ batchResponse = NoBatchResponse
    /\ TokenIdle
    /\ LimiterIdle
    /\ OrderIdle

NextIngestBatch ==
    \/ IngestBatchReject
    \/ IngestBatchNormalize
    \/ IngestBatchRoute
    \/ \E i \in Slots : WorkerAcquire(i)
    \/ \E i \in Slots : Timeout(i)
    \/ \E i \in Slots : IntegrityRun(i)
    \/ \E i \in Slots : ContextRun(i)
    \/ \E i \in Slots : SelectIntegrity(i)
    \/ \E i \in Slots : SelectTimeout(i)
    \/ \E i \in Slots : RouteWait(i)
    \/ \E i \in Slots : WorkerStore(i)
    \/ BatchReturn
    \/ IngestBatchRespond

SpecIngestBatch == InitIngestBatch /\ [][NextIngestBatch]_vars

BadSubmissions ==
    {k \in 1..Len(rawEvents) :
        ValidateSchema(rawEvents[k]) # NoErr \/ NormalizeError(rawEvents[k]) # NoErr}

\* C39: when a submission of a batch of 1 to 100 fails schema validation or
\* normalization, the batch is answered 400 and none of its events is ever handed to
\* RouteBatch, routed, validated or persisted, the valid ones before the bad one
\* included.
C39_AllOrNothing ==
    (Len(rawEvents) \in 1..MaxBatchSize /\ BadSubmissions # {}) =>
        /\ events = <<>>
        /\ batchPc = "idle"
        /\ \A i \in Slots : routePc[i] = "none" /\ integ[i] = "none" /\ ctxg[i] = "none"
        /\ \A i \in Slots : ctxCalls[i] = 0
        /\ store = EmptyStore
        /\ ingestBatchPc = "done" => batchResponse = [NoBatchResponse EXCEPT !.status = 400]

\* a batch whose first submission is well-formed and whose second is not has been
\* answered 400 with nothing routed
C39_Witness ==
    /\ ingestBatchPc = "done"
    /\ Len(rawEvents) = 2
    /\ BadSubmissions = {2}
    /\ batchResponse.status = 400
    /\ batchPc = "idle"

(***************************************************************************)
(* SpecToken: NumCallers concurrent calls of GetIDToken for one audience.  *)
(* A token is named by the number of the ts.Token() call that issued it;   *)
(* the token cached before the calls is token 0.                           *)
(***************************************************************************)
\* token_cache.go:29, 5 * time.Minute
RefreshBuffer == 5

\* token_cache.go:77, 55 * time.Minute
TokenLifetime == 55

\* a cache without the refresh buffer: an entry is used until it expires
Valid_NoBuffer(cache, t) == cache # <<>> /\ t < cache[1].expiresAt

\* token_cache.go:38-39 and 52-53: the entry exists and is not yet inside the buffer
Valid(cache, t) == cache # <<>> /\ t < cache[1].expiresAt - RefreshBuffer

\* a GetIDToken that does not look at the cache again once it holds the lock
DoubleCheck_Skipped(cache, t) == FALSE

\* token_cache.go:51-56: the double-check after acquiring the write lock
DoubleCheck(cache, t) == Valid(cache, t)

Returned == {"returned cached", "returned checked", "returned fresh", "returned error"}

\* token_cache.go:37: cache.mu.RLock()
TokenRLock(c) ==
    /\ tokenPc[c] = "idle"
    /\ tokenMu.writer = 0
    /\ tokenMu' = [tokenMu EXCEPT !.readers = @ \cup {c}]
    /\ tokenPc' = [tokenPc EXCEPT ![c] = "reading"]
    /\ UNCHANGED <<tokens, tokenSource, tokenResult, sourceCalls>>
    /\ UNCHANGED <<batchVars, routeVars, ingestVars, vetoVars, storeVars, archive, histVars,
                   clockVars, fractureVars, ingestBatchVars, limiterVars, orderVars>>

\* token_cache.go:38-45: return the cached token if it is valid; RUnlock
TokenRead(c) ==
    /\ tokenPc[c] = "reading"
    /\ tokenMu' = [tokenMu EXCEPT !.readers = @ \ {c}]
    /\ IF Valid(tokens, now)
          THEN /\ tokenResult' = [tokenResult EXCEPT ![c] =
                                     [token |-> tokens[1].token, err |-> NoErr]]
               /\ tokenPc' = [tokenPc EXCEPT ![c] = "returned cached"]
          ELSE /\ tokenPc' = [tokenPc EXCEPT ![c] = "waiting"]
               /\ UNCHANGED tokenResult
    /\ UNCHANGED <<tokens, tokenSource, sourceCalls>>
    /\ UNCHANGED <<batchVars, routeVars, ingestVars, vetoVars, storeVars, archive, histVars,
                   clockVars, fractureVars, ingestBatchVars, limiterVars, orderVars>>

\* token_cache.go:48: cache.mu.Lock()
TokenLock(c) ==
    /\ tokenPc[c] = "waiting"
    /\ tokenMu.writer = 0
    /\ tokenMu.readers = {}
    /\ tokenMu' = [tokenMu EXCEPT !.writer = c]
    /\ tokenPc' = [tokenPc EXCEPT ![c] = "refreshing"]
    /\ UNCHANGED <<tokens, tokenSource, tokenResult, sourceCalls>>
    /\ UNCHANGED <<batchVars, routeVars, ingestVars, vetoVars, storeVars, archive, histVars,
                   clockVars, fractureVars, ingestBatchVars, limiterVars, orderVars>>

\* token_cache.go:49-81: the double-check, the token source, ts.Token(), the new cache
\* entry, and the deferred Unlock; sourceFails and tokenFails are what
\* idtoken.NewTokenSource and ts.Token() do
TokenRefresh(c, sourceFails, tokenFails) ==
    /\ tokenPc[c] = "refreshing"
    /\ tokenMu' = [tokenMu EXCEPT !.writer = 0]
    /\ IF DoubleCheck(tokens, now)
          THEN /\ tokenResult' = [tokenResult EXCEPT ![c] =
                                     [token |-> tokens[1].token, err |-> NoErr]]
               /\ tokenPc' = [tokenPc EXCEPT ![c] = "returned checked"]
               /\ UNCHANGED <<tokens, tokenSource, sourceCalls>>
          ELSE IF ~tokenSource /\ sourceFails
          THEN /\ tokenResult' = [tokenResult EXCEPT ![c] =
                                     [token |-> NoToken, err |-> "failed to create token source"]]
               /\ tokenPc' = [tokenPc EXCEPT ![c] = "returned error"]
               /\ UNCHANGED <<tokens, tokenSource, sourceCalls>>
          ELSE IF tokenFails
          THEN /\ tokenSource' = TRUE
               /\ sourceCalls' = Append(sourceCalls, [caller |-> c, token |-> NoToken])
               /\ tokenResult' = [tokenResult EXCEPT ![c] =
                                     [token |-> NoToken, err |-> "failed to get token"]]
               /\ tokenPc' = [tokenPc EXCEPT ![c] = "returned error"]
               /\ UNCHANGED tokens
          ELSE /\ tokenSource' = TRUE
               /\ sourceCalls' = Append(sourceCalls,
                                        [caller |-> c, token |-> Len(sourceCalls) + 1])
               /\ tokens' = <<[token |-> Len(sourceCalls) + 1,
                               expiresAt |-> now + TokenLifetime]>>
               /\ tokenResult' = [tokenResult EXCEPT ![c] =
                                     [token |-> Len(sourceCalls) + 1, err |-> NoErr]]
               /\ tokenPc' = [tokenPc EXCEPT ![c] = "returned fresh"]
    /\ UNCHANGED <<batchVars, routeVars, ingestVars, vetoVars, storeVars, archive, histVars,
                   clockVars, fractureVars, ingestBatchVars, limiterVars, orderVars>>

\* the cache when the callers arrive: no entry, an entry inside the refresh buffer, an
\* expired entry, an entry that is still valid
TokenCaches ==
    {<<>>} \cup {<<[token |-> 0, expiresAt |-> BaseNow + d]>> :
                    d \in {RefreshBuffer - 2, 0 - 1, RefreshBuffer + 1}}

InitToken ==
    /\ events = <<>>
    /\ maxConcurrent = 0
    /\ BatchIdle
    /\ RouteInit
    /\ IngestIdle
    /\ raw = NoRaw
    /\ VetoIdle
    /\ StoreIdle
    /\ store = EmptyStore
    /\ AuxIdle
    /\ IngestBatchIdle
    /\ tokens \in TokenCaches
    /\ tokenSource = (tokens # <<>>)
    /\ tokenMu = [readers |-> {}, writer |-> 0]
    /\ tokenPc = [c \in Callers |-> "idle"]
    /\ tokenResult = [c \in Callers |-> NoTokenResult]
    /\ sourceCalls = <<>>
    /\ LimiterIdle
    /\ OrderIdle

NextToken ==
    \/ \E c \in Callers : TokenRLock(c)
    \/ \E c \in Callers : TokenRead(c)
    \/ \E c \in Callers : TokenLock(c)
    \/ \E c \in Callers, sourceFails \in BOOLEAN, tokenFails \in BOOLEAN :
          TokenRefresh(c, sourceFails, tokenFails)

SpecToken == InitToken /\ [][NextToken]_vars

\* every caller has returned, and the entry they found was absent or inside the
\* refresh buffer (the entry cached beforehand is token 0)
CallersReturned == \A c \in Callers : tokenPc[c] \in Returned
NeededRefresh == tokens = <<>> \/ ~Valid(tokens, now) \/ tokens[1].token # 0

\* C30 (as claimed): when several callers call GetIDToken for the audience while its
\* entry is absent or inside the refresh buffer, the token source is asked for a new
\* token exactly once, and every other caller returns the token that refresh cached.
C30_AskedExactlyOnce ==
    (CallersReturned /\ NeededRefresh) =>
        /\ Len(sourceCalls) = 1
        /\ \A c \in Callers \ {sourceCalls[1].caller} :
              /\ tokens # <<>>
              /\ tokenResult[c] = [token |-> tokens[1].token, err |-> NoErr]

\* C30 (amended): the refresh runs under the exclusive lock, one caller at a time, and
\* with the double-check: the token source is not asked again once a call of it has
\* returned a token, and exactly once when no call fails; a caller returns an error
\* only when its own call of the token source, or the creation of the token source,
\* failed; every caller that returns without an error returns the token in the cache.
C30_AskedOnceUnlessFailing ==
    /\ Cardinality({c \in Callers : tokenPc[c] = "refreshing"}) <= 1
    /\ \A c \in Callers : tokenPc[c] = "refreshing" => tokenMu = [readers |-> {}, writer |-> c]
    /\ \A k \in 1..Len(sourceCalls) : sourceCalls[k].token # NoToken => k = Len(sourceCalls)
    /\ \A j, k \in 1..Len(sourceCalls) : sourceCalls[j].caller = sourceCalls[k].caller => j = k
    /\ (CallersReturned /\ NeededRefresh) =>
          /\ (\A c \in Callers : tokenResult[c].err = NoErr) => Len(sourceCalls) = 1
          /\ \A c \in Callers :
                IF tokenResult[c].err = NoErr
                    THEN tokens # <<>> /\ tokenResult[c].token = tokens[1].token
                    ELSE /\ tokenPc[c] = "returned error"
                         /\ \/ tokenResult[c].err = "failed to create token source"
                            \/ \E k \in 1..Len(sourceCalls) :
                                  sourceCalls[k] = [caller |-> c, token |-> NoToken]

\* two callers found no valid entry; one refreshed, the other took the lock after it
\* and returned the cached token from the double-check
C30_Witness ==
    /\ CallersReturned
    /\ Len(sourceCalls) = 1
    /\ \E c, d \in Callers :
          /\ tokenPc[c] = "returned fresh"
          /\ tokenPc[d] = "returned checked"
          /\ tokenResult[d] = [token |-> 1, err |-> NoErr]
          /\ tokenResult[c] = tokenResult[d]

(***************************************************************************)
(* SpecStore: the rdb updater serving POST /update, GET /event and         *)
(* POST /causality requests of any clients while time passes.              *)
(***************************************************************************)
\* number of requests the rdb updater serves
MaxRequests == 4

\* minutes that pass while they are served
MaxTicks == 1

\* store.go:183-247, the event GetEventByID builds from the row with the id
GetEventByID(st, id) ==
    LET row == st[id]
    IN  [ID |-> row.ID, Type |-> row.Type, Source |-> row.Source,
         Timestamp |-> row.Timestamp,
         Actor |-> [ID |-> row.Actor.ID, Name |-> row.Actor.Name, Type |-> row.Actor.Type],
         Evidence |-> row.Evidence,
         VectorClock |-> row.VectorClock,
         Metadata |-> [ReceivedAt |-> row.Metadata.ReceivedAt,
                       ProcessedAt |-> row.Metadata.ProcessedAt,
                       BoundaryNode |-> row.Metadata.BoundaryNode,
                       CorrelationID |-> row.Metadata.CorrelationID,
                       SchemaVersion |-> row.Metadata.SchemaVersion]]

\* an event of this boundary adapter that was ingested with data.vector_clock = {nodeX: 3}
PriorSelfX ==
    StoredEvent(3, "user_login", Missing,
                [n \in {Self, NodeX} |-> IF n = Self THEN BaseNow - 10 ELSE 3],
                BaseNow - 10, Self)

\* the event of nodeX sent again under the same id with a later clock, received and
\* processed later
PriorXLater ==
    [StoredEvent(2, "user_login", Missing, [n \in {NodeX} |-> 9], BaseNow - 5, NodeX)
        EXCEPT !.Metadata.ProcessedAt = BaseNow - 5]

\* the events of the POST /update requests
UpdateInputs == {PriorX, PriorXLater, PriorSelfX}

\* the clocks of the POST /causality requests
QueryClocks ==
    {[n \in {NodeX} |-> 5],
     [n \in {Self, NodeX} |-> IF n = Self THEN BaseNow ELSE 5]}

\* the wall clock advances
Tick ==
    /\ now < BaseNow + MaxTicks
    /\ now' = now + 1
    /\ UNCHANGED <<raw, event, ingestPc, httpStatus, httpBody>>
    /\ UNCHANGED <<batchVars, routeVars, vetoVars, storeVars, auxVars>>

\* handler.go:55-122 for a request of any client: processed_at is set to the time of
\* the request and the event upserted, or the upsert fails (500)
PostUpdate(e) ==
    /\ reqCount < MaxRequests
    /\ reqCount' = reqCount + 1
    /\ \/ /\ store' = UpsertEvent(store, [e EXCEPT !.Metadata.ProcessedAt = now], now)
          /\ updLog' = Append(updLog, [req |-> e, got |-> GetEventByID(store', e.ID)])
          /\ qDirty' = (qDirty \/ vetoPc = "validating")
       \/ UNCHANGED <<store, updLog, qDirty>>
    /\ UNCHANGED <<rdbPc, rdbResp, answers, archive, clockVars, fractureVars, extraVars>>
    /\ UNCHANGED <<batchVars, routeVars, ingestVars, vetoVars>>

\* handler.go:166-186: a POST /causality request with clock vc arrives and
\* CheckVectorClockCausality starts its loop
CausalityRequest(vc) ==
    /\ reqCount < MaxRequests
    /\ vetoPc \in {"idle", "done"}
    /\ reqCount' = reqCount + 1
    /\ vetoReq' = [NoEvent EXCEPT !.VectorClock = vc]
    /\ vetoPending' = DOMAIN vc
    /\ vetoMissing' = <<>>
    /\ vetoDbErr' = FALSE
    /\ vetoPc' = "validating"
    /\ qDirty' = FALSE
    /\ UNCHANGED <<vetoResp, updLog, answers, archive, clockVars, fractureVars, extraVars>>
    /\ UNCHANGED <<batchVars, routeVars, ingestVars, storeVars>>

\* store.go:273 and handler.go:186-212: the loop is over, the request is answered
CausalityRespond ==
    /\ vetoPc = "validating"
    /\ vetoPending = {}
    /\ vetoPc' = "done"
    /\ answers' = Append(answers, [clock |-> vetoReq.VectorClock,
                                   err |-> vetoDbErr,
                                   satisfied |-> CausalityAnswer.satisfied,
                                   missing |-> CausalityAnswer.missing,
                                   clean |-> ~qDirty,
                                   table |-> store])
    /\ UNCHANGED <<vetoReq, vetoPending, vetoMissing, vetoDbErr, vetoResp>>
    /\ UNCHANGED <<reqCount, updLog, qDirty, archive, clockVars, fractureVars, extraVars>>
    /\ UNCHANGED <<batchVars, routeVars, ingestVars, storeVars>>

InitStore ==
    /\ \E e \in EventIds : events = <<e>>
    /\ maxConcurrent = 0
    /\ BatchIdle
    /\ RouteInit
    /\ IngestIdle
    /\ raw = NoRaw
    /\ VetoIdle
    /\ StoreIdle
    /\ store = EmptyStore
    /\ AuxIdle
    /\ ExtraIdle

NextStore ==
    \/ Tick
    \/ \E e \in UpdateInputs : PostUpdate(e)
    \/ \E vc \in QueryClocks : CausalityRequest(vc)
    \/ \E n \in {Self, NodeX} : CausalityQuery(n)
    \/ CausalityRespond

SpecStore == InitStore /\ [][NextStore]_vars

(***************************************************************************)
(* SpecClock: the vector clock operations applied to two clocks, and       *)
(* Normalize stamping the clock of one raw event.                          *)
(***************************************************************************)
\* the counters of the clocks: negative, zero, small, and the largest int64
Counters == {-1, 0, 3, MaxInt64}

\* every clock over the nodes S with these counters
ClocksOver(S) == [S -> Counters]

\* clocks whose key sets differ: over no node, one node, both nodes
Clocks == UNION {ClocksOver(S) : S \in SUBSET {Self, NodeX}}

\* the data.vector_clock values a client can send: counters of nodeX and of this
\* node below, at and above the wall clock's reading, and beyond the range of int64
RawCounters == {Num(5), Num(BaseNow), Num(BaseNow + 50), Num(MaxInt64 + 1), NonNumeric}

\* the data.correlation_id values a client can send: none, empty, a string, a number
RawCorrelationIDs == {NoStr, Str(""), Str("corr-7"), Num(7)}

ClockRaws ==
    {[RawEvent("client", Str("user_login"), Missing, TRUE, c, ts)
         EXCEPT !.Data.correlation_id = corr] :
        c \in UNION {[S -> RawCounters] : S \in (SUBSET {Self, NodeX}) \ {{}}},
        corr \in RawCorrelationIDs, ts \in {0, BaseNow - 10}}

\* event.go:71-77, a.Merge(b)
MergeAB ==
    /\ mergedAB = <<>>
    /\ mergedAB' = <<Merge(clockA, clockB)>>
    /\ UNCHANGED <<clockA, clockB, mergedBA, mergedABB, mergedAA, eventAgain>>
    /\ UNCHANGED <<batchVars, routeVars, ingestVars, vetoVars, storeVars, archive, histVars, fractureVars, extraVars>>

\* event.go:71-77, b.Merge(a)
MergeBA ==
    /\ mergedBA = <<>>
    /\ mergedBA' = <<Merge(clockB, clockA)>>
    /\ UNCHANGED <<clockA, clockB, mergedAB, mergedABB, mergedAA, eventAgain>>
    /\ UNCHANGED <<batchVars, routeVars, ingestVars, vetoVars, storeVars, archive, histVars, fractureVars, extraVars>>

\* event.go:71-77, a.Merge(b) called again on the a that a.Merge(b) left
MergeABAgain ==
    /\ mergedAB # <<>>
    /\ mergedABB = <<>>
    /\ mergedABB' = <<Merge(mergedAB[1], clockB)>>
    /\ UNCHANGED <<clockA, clockB, mergedAB, mergedBA, mergedAA, eventAgain>>
    /\ UNCHANGED <<batchVars, routeVars, ingestVars, vetoVars, storeVars, archive, histVars, fractureVars, extraVars>>

\* event.go:71-77, a.Merge(a)
MergeAA ==
    /\ mergedAA = <<>>
    /\ mergedAA' = <<Merge(clockA, clockA)>>
    /\ UNCHANGED <<clockA, clockB, mergedAB, mergedBA, mergedABB, eventAgain>>
    /\ UNCHANGED <<batchVars, routeVars, ingestVars, vetoVars, storeVars, archive, histVars, fractureVars, extraVars>>

\* normalizer.go:31-89: Normalize is called on the raw event and returns the event
NormalizeCall ==
    /\ event = NoEvent
    /\ NormalizeError(raw) = NoErr
    /\ \E oor \in OutOfRange : event' = Normalize(raw, now, Self, 1, oor)
    /\ UNCHANGED <<now, raw, ingestPc, httpStatus, httpBody>>
    /\ UNCHANGED <<batchVars, routeVars, vetoVars, storeVars, auxVars>>

\* normalizer.go:31-89: Normalize is called a second time on the same raw event
NormalizeAgain ==
    /\ event # NoEvent
    /\ eventAgain = NoEvent
    /\ \E oor \in OutOfRange : eventAgain' = Normalize(raw, now, Self, 2, oor)
    /\ UNCHANGED <<clockA, clockB, mergedAB, mergedBA, mergedABB, mergedAA>>
    /\ UNCHANGED <<batchVars, routeVars, ingestVars, vetoVars, storeVars, archive, histVars,
                   fractureVars, extraVars>>

InitClock ==
    /\ \E e \in EventIds : events = <<e>>
    /\ maxConcurrent = 0
    /\ BatchIdle
    /\ RouteInit
    /\ IngestIdle
    /\ VetoIdle
    /\ StoreIdle
    /\ store = EmptyStore
    /\ archive = EmptyArchive
    /\ reqCount = 0
    /\ updLog = <<>>
    /\ answers = <<>>
    /\ qDirty = FALSE
    /\ \/ raw \in ClockRaws /\ clockA = EmptyClock /\ clockB = EmptyClock
       \/ raw = NoRaw /\ clockA \in Clocks /\ clockB \in Clocks
    /\ ClockIdle
    /\ FractureIdle
    /\ ExtraIdle

NextClock ==
    \/ MergeAB
    \/ MergeBA
    \/ MergeABAgain
    \/ MergeAA
    \/ NormalizeCall
    \/ Tick
    \/ NormalizeAgain

SpecClock == InitClock /\ [][NextClock]_vars

(***************************************************************************)
(* SpecOrder: HappensBefore and IsConcurrent applied to three clocks.      *)
(***************************************************************************)
\* the orders in which range may visit the keys of a map
Orders(S) ==
    {o \in [1..Cardinality(S) -> S] : \A n \in S : \E k \in 1..Cardinality(S) : o[k] = n}

\* a step that takes an absent key of other as a zero counter
HappensBeforeStep_ZeroDefault(vc, other, n) ==
    IF vc[n] > Get(other, n) THEN "return false"
    ELSE IF vc[n] < Get(other, n) THEN "strictly less"
    ELSE "equal"

\* event.go:84-93, one round of the loop over the entries of vc
HappensBeforeStep(vc, other, n) ==
    IF n \notin DOMAIN other \/ vc[n] > other[n] THEN "return false"
    ELSE IF vc[n] < other[n] THEN "strictly less"
    ELSE "equal"

\* event.go:80-96: the loop from the k-th key on, with the two flags so far
RECURSIVE HappensBeforeLoop(_, _, _, _, _, _)
HappensBeforeLoop(vc, other, order, k, lessThanOrEqual, strictlyLess) ==
    IF k > Len(order) THEN lessThanOrEqual /\ strictlyLess
    ELSE LET step == HappensBeforeStep(vc, other, order[k])
         IN  IF step = "return false" THEN FALSE
             ELSE HappensBeforeLoop(vc, other, order, k + 1, TRUE,
                                    strictlyLess \/ step = "strictly less")

\* event.go:80-96, vc.HappensBefore(other), the keys of vc visited in this order
HappensBefore(vc, other, order) == HappensBeforeLoop(vc, other, order, 1, FALSE, FALSE)

\* a test of one direction only
IsConcurrent_OneSided(vc, other, order, otherOrder) ==
    ~HappensBefore(vc, other, order)

\* event.go:99-101, vc.IsConcurrent(other)
IsConcurrent(vc, other, order, otherOrder) ==
    ~HappensBefore(vc, other, order) /\ ~HappensBefore(other, vc, otherOrder)

ClockNames == {"a", "b", "c"}

ClockOf(x) == IF x = "a" THEN clockA ELSE IF x = "b" THEN clockB ELSE clockC

\* the calls made on the three clocks, in this order
OrderCalls ==
    << <<"HappensBefore", "a", "a">>, <<"HappensBefore", "a", "b">>,
       <<"HappensBefore", "b", "a">>, <<"HappensBefore", "b", "c">>,
       <<"HappensBefore", "a", "c">>, <<"IsConcurrent", "a", "b">>,
       <<"IsConcurrent", "b", "a">> >>

CallsMade == Cardinality(DOMAIN before) + Cardinality(DOMAIN concurrent)

NextCall(name, x, y) ==
    /\ CallsMade < Len(OrderCalls)
    /\ OrderCalls[CallsMade + 1] = <<name, x, y>>

\* the calls so far and the answer r of the call on x and y
Answered(calls, x, y, r) ==
    [p \in DOMAIN calls \cup {<<x, y>>} |-> IF p = <<x, y>> THEN r ELSE calls[p]]

\* event.go:80-96, x.HappensBefore(y)
HappensBeforeCall(x, y) ==
    /\ NextCall("HappensBefore", x, y)
    /\ \E order \in Orders(DOMAIN ClockOf(x)) :
          before' = Answered(before, x, y, HappensBefore(ClockOf(x), ClockOf(y), order))
    /\ UNCHANGED <<clockC, concurrent>>
    /\ UNCHANGED <<batchVars, routeVars, ingestVars, vetoVars, storeVars, archive, histVars,
                   clockVars, fractureVars, ingestBatchVars, tokenVars, limiterVars>>

\* event.go:99-101, x.IsConcurrent(y)
IsConcurrentCall(x, y) ==
    /\ NextCall("IsConcurrent", x, y)
    /\ \E order \in Orders(DOMAIN ClockOf(x)), otherOrder \in Orders(DOMAIN ClockOf(y)) :
          concurrent' = Answered(concurrent, x, y,
                                 IsConcurrent(ClockOf(x), ClockOf(y), order, otherOrder))
    /\ UNCHANGED <<clockC, before>>
    /\ UNCHANGED <<batchVars, routeVars, ingestVars, vetoVars, storeVars, archive, histVars,
                   clockVars, fractureVars, ingestBatchVars, tokenVars, limiterVars>>

InitOrder ==
    /\ \E e \in EventIds : events = <<e>>
    /\ maxConcurrent = 0
    /\ BatchIdle
    /\ RouteInit
    /\ IngestIdle
    /\ raw = NoRaw
    /\ VetoIdle
    /\ StoreIdle
    /\ store = EmptyStore
    /\ archive = EmptyArchive
    /\ reqCount = 0
    /\ updLog = <<>>
    /\ answers = <<>>
    /\ qDirty = FALSE
    /\ clockA \in Clocks
    /\ clockB \in Clocks
    /\ clockC \in Clocks
    /\ ClockIdle
    /\ before = <<>>
    /\ concurrent = <<>>
    /\ FractureIdle
    /\ IngestBatchIdle
    /\ TokenIdle
    /\ LimiterIdle

NextOrder ==
    \/ \E x, y \in ClockNames : HappensBeforeCall(x, y)
    \/ \E x, y \in ClockNames : IsConcurrentCall(x, y)

SpecOrder == InitOrder /\ [][NextOrder]_vars

(***************************************************************************)
(* SpecFracture: the data fracture handler serving POST /fracture and      *)
(* POST /fracture/batch, its background writers and the bucket.            *)
(***************************************************************************)
\* part_003:290-296, a FractureRequest
FractureRequest(e, failed) == [Event |-> e, FailedChecks |-> failed]

\* part_003:298-318: the fracture gets a fresh id and the time of the conversion
ToFracturedEvent(fr, id, t) ==
    [FractureID |-> id, Timestamp |-> t, Event |-> fr.Event,
     FailedChecks |-> fr.FailedChecks]

\* part_003:186-193, the object a fracture is written to
generateObjectPath(timestamp) == HourOf(timestamp)

\* part_003:205-214, the fractures of each object path, in the order of the batch
groupByHour(fractures) ==
    [p \in {generateObjectPath(fractures[k].Timestamp) : k \in 1..Len(fractures)} |->
        SelectSeq(fractures, LAMBDA f : generateObjectPath(f.Timestamp) = p)]

\* part_003:45-63 and 96-114: obj.NewWriter, Write of each line and Close create the
\* object anew with these lines as its whole content
WriteObject(arch, p, lines) ==
    [q \in DOMAIN arch \cup {p} |-> IF q = p THEN lines ELSE arch[q]]

\* a writer that keeps the lines the object already holds
WriteObject_Append(arch, p, lines) ==
    [q \in DOMAIN arch \cup {p} |->
        IF q = p THEN (IF p \in DOMAIN arch THEN arch[p] ELSE <<>>) \o lines ELSE arch[q]]

\* a background task that starts over after a failed write
AfterWriteError_Retry == "spawned"

\* main.go:241-247 and 304-310: after a failed write the goroutine logs and ends
AfterWriteError == "failed"

\* main.go:262-266 and 312-324, the response to an accepted request
FractureAccepted(n) == [status |-> 200, count |-> n]

\* the requests of POST /fracture: a rejected event with or without failed checks
FractureInputs ==
    {FractureRequest(e, failed) :
        e \in {PriorSelf, PriorX}, failed \in {<<"temporal">>, <<>>}}

\* the requests of POST /fracture/batch: no, one and two fractures
FractureBatchInputs ==
    {<<>>,
     <<FractureRequest(PriorSelf, <<"temporal">>)>>,
     <<FractureRequest(PriorSelf, <<"temporal">>), FractureRequest(PriorX, <<"causality">>)>>}

\* main.go:206-247: POST /fracture is decoded, converted and its goroutine started
LogFracture(r, fr) ==
    /\ frac[r].pc = "none"
    /\ Len(fr.FailedChecks) > 0
    /\ LET f == ToFracturedEvent(fr, <<r, 1>>, now)
       IN  frac' = [frac EXCEPT ![r] = [@ EXCEPT !.pc = "handling", !.ctx = "active",
                                                 !.task = "spawned", !.events = <<f>>]]
    /\ UNCHANGED <<archive, bucket, written>>
    /\ UNCHANGED <<batchVars, routeVars, ingestVars, vetoVars, storeVars, histVars, clockVars, extraVars>>

\* main.go:228-231: failed_checks is empty, 400
LogFractureReject(r, fr) ==
    /\ frac[r].pc = "none"
    /\ Len(fr.FailedChecks) = 0
    /\ frac' = [frac EXCEPT ![r] = [@ EXCEPT !.pc = "returned", !.ctx = "canceled",
                                             !.status = 400]]
    /\ UNCHANGED <<archive, bucket, written>>
    /\ UNCHANGED <<batchVars, routeVars, ingestVars, vetoVars, storeVars, histVars, clockVars, extraVars>>

\* main.go:270-310: POST /fracture/batch is decoded, every request converted and the
\* goroutine started
LogFractureBatch(r, reqs) ==
    /\ frac[r].pc = "none"
    /\ Len(reqs) > 0
    /\ LET fs == [k \in 1..Len(reqs) |-> ToFracturedEvent(reqs[k], <<r, k>>, now)]
       IN  frac' = [frac EXCEPT ![r] = [@ EXCEPT !.pc = "handling", !.ctx = "active",
                                                 !.task = "spawned", !.batch = TRUE,
                                                 !.events = fs]]
    /\ UNCHANGED <<archive, bucket, written>>
    /\ UNCHANGED <<batchVars, routeVars, ingestVars, vetoVars, storeVars, histVars, clockVars, extraVars>>

\* main.go:285-288: the batch is empty, 400
LogFractureBatchReject(r, reqs) ==
    /\ frac[r].pc = "none"
    /\ Len(reqs) = 0
    /\ frac' = [frac EXCEPT ![r] = [@ EXCEPT !.pc = "returned", !.ctx = "canceled",
                                             !.batch = TRUE, !.status = 400]]
    /\ UNCHANGED <<archive, bucket, written>>
    /\ UNCHANGED <<batchVars, routeVars, ingestVars, vetoVars, storeVars, histVars, clockVars, extraVars>>

\* main.go:249-266 and 312-324: the handler writes 200 and returns; net/http then
\* cancels the request's context
LogFractureReturn(r) ==
    /\ frac[r].pc = "handling"
    /\ frac' = [frac EXCEPT ![r] = [@ EXCEPT !.pc = "returned", !.ctx = "canceled",
                                             !.status = FractureAccepted(Len(frac[r].events)).status,
                                             !.count = FractureAccepted(Len(frac[r].events)).count]]
    /\ UNCHANGED <<archive, bucket, written>>
    /\ UNCHANGED <<batchVars, routeVars, ingestVars, vetoVars, storeVars, histVars, clockVars, extraVars>>

\* main.go:242-243 and 305-306: the goroutine takes r.Context() and calls the writer
\* (part_003:37-43, 74-82)
WriteStart(r) ==
    /\ frac[r].task = "spawned"
    /\ frac' = [frac EXCEPT ![r] = [@ EXCEPT !.task = "writing",
                                             !.attempts = @ + 1,
                                             !.pending = DOMAIN groupByHour(frac[r].events)]]
    /\ UNCHANGED <<archive, bucket, written>>
    /\ UNCHANGED <<batchVars, routeVars, ingestVars, vetoVars, storeVars, histVars, clockVars, extraVars>>

\* part_003:45-70 and 92-121: one object is uploaded and closed; the upload runs
\* under the request's context and succeeds when that context is still live
WriteClose(r, p) ==
    /\ frac[r].task = "writing"
    /\ p \in frac[r].pending
    /\ frac[r].ctx = "active"
    /\ bucket # "down"
    /\ archive' = WriteObject(archive, p, groupByHour(frac[r].events)[p])
    /\ written' = written \cup
                    {groupByHour(frac[r].events)[p][k] :
                        k \in 1..Len(groupByHour(frac[r].events)[p])}
    /\ frac' = [frac EXCEPT ![r] = [@ EXCEPT !.pending = @ \ {p},
                                             !.task = IF frac[r].pending = {p}
                                                          THEN "done" ELSE "writing"]]
    /\ UNCHANGED bucket
    /\ UNCHANGED <<batchVars, routeVars, ingestVars, vetoVars, storeVars, histVars, clockVars, extraVars>>

\* part_003:56-64, 107-115 and main.go:243-246, 306-308: the upload fails, because the
\* context was cancelled or the bucket cannot be reached; the error is logged
WriteFail(r, p) ==
    /\ frac[r].task = "writing"
    /\ p \in frac[r].pending
    /\ \/ /\ frac[r].ctx = "canceled"
          /\ frac' = [frac EXCEPT ![r] = [@ EXCEPT !.task = AfterWriteError,
                                                   !.logged = TRUE, !.err = Canceled]]
       \/ /\ bucket = "down"
          /\ frac' = [frac EXCEPT ![r] = [@ EXCEPT !.task = AfterWriteError,
                                                   !.logged = TRUE, !.err = "unavailable"]]
    /\ UNCHANGED <<archive, bucket, written>>
    /\ UNCHANGED <<batchVars, routeVars, ingestVars, vetoVars, storeVars, histVars, clockVars, extraVars>>

\* the bucket becomes unreachable
BucketDown ==
    /\ bucket # "down"
    /\ bucket' = "down"
    /\ UNCHANGED <<frac, archive, written>>
    /\ UNCHANGED <<batchVars, routeVars, ingestVars, vetoVars, storeVars, histVars, clockVars, extraVars>>

\* the bucket can be reached again
BucketRestored ==
    /\ bucket = "down"
    /\ bucket' = "restored"
    /\ UNCHANGED <<frac, archive, written>>
    /\ UNCHANGED <<batchVars, routeVars, ingestVars, vetoVars, storeVars, histVars, clockVars, extraVars>>

InitFracture ==
    /\ \E e \in EventIds : events = <<e>>
    /\ maxConcurrent = 0
    /\ BatchIdle
    /\ RouteInit
    /\ IngestIdle
    /\ raw = NoRaw
    /\ VetoIdle
    /\ StoreIdle
    /\ store = EmptyStore
    /\ AuxIdle
    /\ ExtraIdle

NextFracture ==
    \/ \E r \in FractureSlots, fr \in FractureInputs : LogFracture(r, fr)
    \/ \E r \in FractureSlots, fr \in FractureInputs : LogFractureReject(r, fr)
    \/ \E r \in FractureSlots, reqs \in FractureBatchInputs : LogFractureBatch(r, reqs)
    \/ \E r \in FractureSlots, reqs \in FractureBatchInputs : LogFractureBatchReject(r, reqs)
    \/ \E r \in FractureSlots : LogFractureReturn(r)
    \/ \E r \in FractureSlots : WriteStart(r)
    \/ \E r \in FractureSlots, p \in {HourOf(now)} : WriteClose(r, p)
    \/ \E r \in FractureSlots, p \in {HourOf(now)} : WriteFail(r, p)
    \/ BucketDown
    \/ BucketRestored

SpecFracture == InitFracture /\ [][NextFracture]_vars

(***************************************************************************)
(* SpecValidate: one POST /validate served by the veto service, for any    *)
(* event and any content of the store, while updates of other requests     *)
(* land in the store.                                                      *)
(***************************************************************************)
InitValidate ==
    /\ \E e \in EventIds : events = <<e>>
    /\ maxConcurrent = 0
    /\ BatchIdle
    /\ RouteInit
    /\ IngestIdle
    /\ raw = NoRaw
    /\ vetoPc = "received"
    /\ vetoReq \in ValidateInputs
    /\ vetoPending = {}
    /\ vetoMissing = <<>>
    /\ vetoDbErr = FALSE
    /\ vetoResp = NoResponse
    /\ StoreIdle
    /\ store \in Stores
    /\ AuxIdle
    /\ ExtraIdle

NextValidate ==
    \/ VetoStart
    \/ \E n \in {Self, NodeX} : CausalityQuery(n)
    \/ VetoRespond
    \/ \E e \in Priors : vetoPc # "done" /\ UpdateContextOther(e)

SpecValidate == InitValidate /\ [][NextValidate]_vars

(***************************************************************************)
(* SpecIngest: one POST /ingest through the boundary adapter, the router,  *)
(* the veto service and the rdb updater.                                   *)
(***************************************************************************)
InitIngest ==
    /\ events = <<>>
    /\ maxConcurrent = 0
    /\ BatchIdle
    /\ RouteInit
    /\ IngestIdle
    /\ raw \in IngestInputs
    /\ VetoIdle
    /\ StoreIdle
    /\ store \in Stores
    /\ AuxIdle
    /\ ExtraIdle

NextIngest ==
    \/ IngestReject
    \/ IngestAccept(1)
    \/ Timeout(1)
    \/ ParentCancel
    \/ IntegrityCall(1)
    \/ VetoReceive(1)
    \/ VetoStart
    \/ \E n \in {Self, NodeX} : CausalityQuery(n)
    \/ VetoRespond
    \/ SendToVetoReturn(1)
    \/ IntegrityWrite(1)
    \/ IntegritySend(1)
    \/ ContextCall(1)
    \/ UpdateContext(1)
    \/ SendToRDBReturn(1)
    \/ ContextWrite(1)
    \/ SelectIntegrity(1)
    \/ SelectTimeout(1)
    \/ RouteWait(1)
    \/ IngestRespond(1)

SpecIngest == InitIngest /\ [][NextIngest]_vars

(***************************************************************************)
(* SpecTokenClock: the callers of GetIDToken while the wall clock advances, *)
(* so that an entry valid for one caller is inside the buffer for the next. *)
(***************************************************************************)
NextTokenClock ==
    \/ NextToken
    \/ Tick

SpecTokenClock == InitToken /\ [][NextTokenClock]_vars

\* C31: GetIDToken returns the cached token only while the current time is earlier
\* than the entry's expiry minus the 5-minute refresh buffer, leaving the entry as it
\* is; in every other case it returns a newly fetched token, stored with the expiry
\* 55 minutes ahead, or an error without a token, never the token that was cached; a
\* failed fetch leaves the cache entry unchanged.
C31_CachedOnlyWhileValid ==
    [][\A c \in Callers :
          (tokenPc[c] \notin Returned /\ tokenPc'[c] \in Returned) =>
              IF tokens # <<>> /\ now < tokens[1].expiresAt - RefreshBuffer
                  THEN /\ tokenPc'[c] \in {"returned cached", "returned checked"}
                       /\ tokenResult'[c] = [token |-> tokens[1].token, err |-> NoErr]
                       /\ tokens' = tokens
                  ELSE \/ /\ tokenPc'[c] = "returned fresh"
                          /\ tokenResult'[c].err = NoErr
                          /\ tokens # <<>> => tokenResult'[c].token # tokens[1].token
                          /\ tokens' = <<[token |-> tokenResult'[c].token,
                                          expiresAt |-> now + TokenLifetime]>>
                       \/ /\ tokenPc'[c] = "returned error"
                          /\ tokenResult'[c].token = NoToken
                          /\ tokenResult'[c].err # NoErr
                          /\ tokens' = tokens]_vars

\* a caller returned the cached token 0 while it was valid; the clock advanced into the
\* refresh buffer and the next caller fetched a new one
C31_Witness ==
    \E c, d \in Callers :
        /\ tokenPc[c] = "returned cached" /\ tokenResult[c].token = 0
        /\ tokenPc[d] = "returned fresh" /\ tokenResult[d].token = 1
        /\ tokens = <<[token |-> 1, expiresAt |-> now + TokenLifetime]>>

(***************************************************************************)
(* SpecLimiter: the rate limiter of the API gateway (auth.go:119-184),     *)
(* next to a copy of it that receives the same Allow calls and is never    *)
(* cleaned up.                                                             *)
(***************************************************************************)
\* auth.go:151, time.Minute
Window == 1

\* auth.go:177, 2 * time.Minute
CleanupAge == 2 * Window

\* minutes that pass while the limiter is used
MaxMinutes == 4

Clients == {"client-a", "client-b"}

\* the key.RateLimit values of the requests (auth.go:220)
RateLimits == {1, 2}

\* auth.go:144-167: the map after Allow(clientID, limit) at time t
AllowRequests(reqs, clientID, limit, t) ==
    IF clientID \notin DOMAIN reqs \/ t - reqs[clientID].windowStart > Window
        THEN [c \in DOMAIN reqs \cup {clientID} |->
                 IF c = clientID THEN [count |-> 1, windowStart |-> t] ELSE reqs[c]]
    ELSE IF reqs[clientID].count >= limit THEN reqs
    ELSE [reqs EXCEPT ![clientID].count = @ + 1]

\* auth.go:144-167: what Allow(clientID, limit) returns at time t
AllowResult(reqs, clientID, limit, t) ==
    IF clientID \notin DOMAIN reqs \/ t - reqs[clientID].windowStart > Window THEN TRUE
    ELSE reqs[clientID].count < limit

\* a cleanup that removes every entry, whatever its age
Stale_Any(rate, t) == TRUE

\* auth.go:177: the entry's window started more than two minutes ago
Stale(rate, t) == t - rate.windowStart > CleanupAge

\* auth.go:144-167, on the limiter and on its copy
Allow(clientID, limit) ==
    /\ requests' = AllowRequests(requests, clientID, limit, now)
    /\ uncleaned' = AllowRequests(uncleaned, clientID, limit, now)
    /\ lastAllow' = [client |-> clientID,
                     allowed |-> AllowResult(requests, clientID, limit, now),
                     uncleaned |-> AllowResult(uncleaned, clientID, limit, now)]
    /\ UNCHANGED cleanups
    /\ UNCHANGED <<batchVars, routeVars, ingestVars, vetoVars, storeVars, archive, histVars,
                   clockVars, fractureVars, ingestBatchVars, tokenVars, orderVars>>

\* auth.go:170-184: one round of the cleanup goroutine
Cleanup ==
    /\ \E c \in DOMAIN requests : Stale(requests[c], now)
    /\ requests' = [c \in {d \in DOMAIN requests : ~Stale(requests[d], now)} |-> requests[c]]
    /\ cleanups' = cleanups \cup {c \in DOMAIN requests : Stale(requests[c], now)}
    /\ UNCHANGED <<uncleaned, lastAllow>>
    /\ UNCHANGED <<batchVars, routeVars, ingestVars, vetoVars, storeVars, archive, histVars,
                   clockVars, fractureVars, ingestBatchVars, tokenVars, orderVars>>

\* a minute passes
Minute ==
    /\ now < BaseNow + MaxMinutes
    /\ now' = now + 1
    /\ UNCHANGED <<raw, event, ingestPc, httpStatus, httpBody>>
    /\ UNCHANGED <<batchVars, routeVars, vetoVars, storeVars, auxVars>>

InitLimiter ==
    /\ events = <<>>
    /\ maxConcurrent = 0
    /\ BatchIdle
    /\ RouteInit
    /\ IngestIdle
    /\ raw = NoRaw
    /\ VetoIdle
    /\ StoreIdle
    /\ store = EmptyStore
    /\ AuxIdle
    /\ ExtraIdle

NextLimiter ==
    \/ \E c \in Clients, limit \in RateLimits : Allow(c, limit)
    \/ Cleanup
    \/ Minute

SpecLimiter == InitLimiter /\ [][NextLimiter]_vars

\* C32: the cleanup removes only entries whose window started more than 2 minutes
\* ago, never one whose window is current: every Allow call is answered as it is by
\* the limiter that is never cleaned up, and the entries the limiter has kept are
\* those of the other one, the missing ones having started more than 2 minutes ago.
C32_CleanupInvisible ==
    /\ lastAllow.allowed = lastAllow.uncleaned
    /\ DOMAIN requests \subseteq DOMAIN uncleaned
    /\ \A c \in DOMAIN requests : requests[c] = uncleaned[c]
    /\ \A c \in DOMAIN uncleaned \ DOMAIN requests :
          now - uncleaned[c].windowStart > 2 * Window

\* the cleanup removed a client's entry, and the client's next request started a new
\* window in both limiters
C32_Witness ==
    \E c \in cleanups :
        /\ lastAllow = [client |-> c, allowed |-> TRUE, uncleaned |-> TRUE]
        /\ c \in DOMAIN requests
        /\ requests[c] = [count |-> 1, windowStart |-> now]

(***************************************************************************)
(* Properties of Route (checked under Spec)                                *)
(***************************************************************************)
HandlerReturned(i) == integ[i] \in {"returned", "wrote", "exited"}

C3_ReturnsByDeadline ==
    \A i \in Slots :
        ~(/\ routeCtx[i] = "deadline" /\ ~firedFirst[i]
          /\ integ[i] = "exited" /\ integErr[i] = NoErr
          /\ routePc[i] = "wgwait"
          /\ ctxg[i] # "exited")

\* C25 (as claimed): once Route has returned, on any of its outcomes, no goroutine of
\* that call writes the RouteResult it returned: IntegritySuccess, IntegrityError,
\* ContextSuccess and ContextError keep the values they had at the return.
C25_NoWriteAfterReturn ==
    [][\A i \in Slots : routePc[i] = "returned" => result'[i] = result[i]]_vars

\* C26 (as claimed): the error Route returned and the IntegritySuccess flag of the
\* result it returned agree at the return and at every later time, nil with a set
\* flag and an error with a cleared one; hence the succeeded count IngestBatch
\* answers is the number of events whose Route call returned nil.
C26_FlagAgreesWithError ==
    /\ \A i \in Slots :
          routePc[i] = "returned" => (retErr[i] = NoErr <=> result[i].IntegritySuccess)
    /\ (ingestBatchPc = "done" /\ batchResponse.status # 400) =>
          batchResponse.succeeded = Cardinality({k \in 1..Len(events) : retErr[k] = NoErr})

\* C4: SendToRDB is invoked at most once per Route call, exactly once by the time
\* the context goroutine runs, always under a context that is not done, also after
\* the integrity handler failed, the router timeout fired, the caller's context was
\* cancelled or Route returned; it never returns a context error.
C4_ContextPathNeverCancelled ==
    \A i \in Slots :
        /\ ctxCalls[i] <= 1
        /\ ctxg[i] \in {"running", "returned", "exited"} =>
              /\ ctxCalls[i] = 1
              /\ ~CtxDone(i, ctxgCtx[i])
        /\ ctxg[i] \in {"returned", "exited"} => ctxgErr[i] \notin {DeadlineExceeded, Canceled}

\* C4 witness: Route has returned on the timeout, the integrity handler has failed
\* with the deadline error, and SendToRDB is still in flight
C4_Witness ==
    \E i \in Slots :
        /\ routePc[i] = "returned" /\ retErr[i] = ErrTimeout
        /\ HandlerReturned(i) /\ integErr[i] = DeadlineExceeded
        /\ ctxg[i] = "running"

\* C5 (as claimed): a call whose router timeout fired before SendToVeto returned
\* returns the timeout failure, never success and never an integrity rejection.
C5_TimeoutReported ==
    \A i \in Slots :
        (routePc[i] = "returned" /\ firedFirst[i]) => retErr[i] = ErrTimeout

(***************************************************************************)
(* Properties of POST /ingest (checked under SpecIngest)                   *)
(***************************************************************************)
\* C2: Route returns nil only after the integrity goroutine has finished with a nil
\* error from SendToVeto for that event, and POST /ingest answers 200 only after the
\* veto service has answered 200 with passed=true to the validation of that same
\* event: never for an event that was vetoed, whose validation failed or is unfinished.
C2_AcceptOnlyAfterPass ==
    /\ \A i \in Slots : (routePc[i] = "returned" /\ retErr[i] = NoErr) =>
          /\ integ[i] = "exited"
          /\ integErr[i] = NoErr
          /\ result[i].IntegritySuccess
    /\ httpStatus = 200 =>
          /\ routePc[1] = "returned" /\ retErr[1] = NoErr
          /\ httpBody.integrity_success
          /\ vetoPc = "done"
          /\ vetoReq = event
          /\ vetoResp.status = 200 /\ vetoResp.event_id = event.ID
          /\ vetoResp.Data[1].passed

\* C2 witness: a 200 for an event whose clock names nodeX, the causality queries
\* having run before the answer
C2_Witness ==
    /\ httpStatus = 200
    /\ NodeX \in DOMAIN event.VectorClock
    /\ vetoResp.status = 200

\* C6 (as claimed): once a request whose validation was answered 412 (passed=false)
\* has run to its end, the archive holds a record with the event's id and the same
\* failed_checks under the hour bucket of event.timestamp.
C6_FractureArchived ==
    (/\ vetoPc = "done" /\ vetoResp.status = 412
     /\ ingestPc = "done" /\ integ[1] = "exited" /\ ctxg[1] = "exited")
    => \E p \in DOMAIN archive : \E k \in 1..Len(archive[p]) :
          /\ archive[p][k].Event.ID = vetoResp.event_id
          /\ archive[p][k].FailedChecks = vetoResp.Data[1].failed_checks
          /\ p = HourOf(vetoReq.Timestamp)

\* C10 (as claimed): an event ingested with data.vector_clock = {nodeX: c}, c a
\* positive number, while the store holds no event of nodeX, is answered by the
\* validation with 412, failed_checks containing causality and the reason naming
\* nodeX as the only missing node.
C10_OnlyNodeXMissing ==
    (/\ vetoPc = "done" /\ vetoResp.status \in {200, 412}
     /\ raw.Data.has_vector_clock
     /\ DOMAIN raw.Data.vector_clock = {NodeX}
     /\ IsFloat64(raw.Data.vector_clock[NodeX])
     /\ raw.Data.vector_clock[NodeX].val > 0
     /\ \A id \in DOMAIN store : store[id].Metadata.BoundaryNode # NodeX)
    => /\ vetoResp.status = 412
       /\ \E k \in 1..Len(vetoResp.Data[1].reasons) :
             /\ vetoResp.Data[1].failed_checks[k] = "causality"
             /\ vetoResp.Data[1].reasons[k][2].nodes = <<NodeX>>

(***************************************************************************)
(* Properties of POST /validate (checked under SpecValidate)               *)
(***************************************************************************)
CheckOrder == <<"causality", "actor_existence", "business_rules", "temporal">>

\* the outcome of one check of the answered request, taken on its own
CheckOutcome(c) ==
    CASE c = "causality" -> checkCausality(vetoReq, CausalityAnswer)
      [] c = "actor_existence" -> checkActorExists(vetoReq)
      [] c = "business_rules" -> checkBusinessRules(vetoReq)
      [] OTHER -> checkTemporal(vetoReq, now)

CheckFailed(c) == ~CheckOutcome(c).Passed

Validated == vetoPc = "done" /\ vetoResp.status \in {200, 412}

\* C7: a validation that ended without an internal error reports every check that
\* failed, whichever checks failed before it: failed_checks is the list of the
\* failing checks in check order, one entry each, reasons pairs each with its
\* reason, and the answer is 412 exactly when the list is not empty.
C7_AllChecksReported ==
    Validated =>
        LET failed == SelectSeq(CheckOrder, CheckFailed)
            data == vetoResp.Data[1]
        IN  /\ vetoResp.status = 412 <=> failed # <<>>
            /\ data.passed <=> failed = <<>>
            /\ data.failed_checks = failed
            /\ Len(data.reasons) = Len(failed)
            /\ \A k \in 1..Len(failed) :
                  data.reasons[k] = <<failed[k], CheckOutcome(failed[k]).Reason>>

\* C7 witness: causality, business rules and the temporal check all failed and all
\* three are reported
C7_Witness ==
    /\ Validated
    /\ vetoResp.Data[1].failed_checks = <<"causality", "business_rules", "temporal">>

\* the reasons the answer gives for the causality check (none when it passed)
CausalityReasons ==
    LET reasons == vetoResp.Data[1].reasons
    IN  {reasons[k][2] : k \in {j \in 1..Len(reasons) : reasons[j][1] = "causality"}}

\* C33: the causality check passes without a query to the store iff the event's
\* clock has at most one entry; with two or more entries the store is queried for
\* every entry of the clock, and the check fails, with the reason "causal
\* dependencies not satisfied, missing nodes:" and the store's missing nodes, exactly
\* when the store reports the clock unsatisfied.
C33_CausalityCheck ==
    LET size == Cardinality(DOMAIN vetoReq.VectorClock)
    IN  /\ (vetoPc \in {"validating", "done"} /\ size <= 1) =>
              /\ vetoPending = {} /\ vetoMissing = <<>> /\ ~vetoDbErr
              /\ Validated => CausalityReasons = {}
        /\ (vetoPc = "validating" /\ size >= 2 /\ ~vetoDbErr) =>
              /\ vetoPending \subseteq DOMAIN vetoReq.VectorClock
              /\ \A k \in 1..Len(vetoMissing) :
                    vetoMissing[k] \in DOMAIN vetoReq.VectorClock \ vetoPending
        /\ (Validated /\ size >= 2) =>
              /\ vetoPending = {} /\ ~vetoDbErr
              /\ CausalityReasons =
                    IF ~CausalityAnswer.satisfied
                        THEN {Reason("causal dependencies not satisfied, missing nodes:",
                                     CausalityAnswer.missing, 0)}
                        ELSE {}
              /\ CausalityAnswer.satisfied <=> vetoMissing = <<>>
        /\ (vetoPc = "done" /\ vetoReq.Type # "" /\ size >= 2 /\ vetoDbErr) =>
              vetoResp.status = 500

\* a clock of two entries, the store without an event of nodeX: the check failed and
\* names nodeX
C33_Witness ==
    /\ Validated
    /\ Cardinality(DOMAIN vetoReq.VectorClock) = 2
    /\ vetoMissing = <<NodeX>>
    /\ vetoResp.status = 412
    /\ \E r \in CausalityReasons : r.nodes = <<NodeX>>

\* the reason texts the answer gives for the temporal check (none when it passed)
TemporalReasons ==
    LET reasons == vetoResp.Data[1].reasons
    IN  {reasons[k][2].text : k \in {j \in 1..Len(reasons) : reasons[j][1] = "temporal"}}

\* C16: the temporal check passes exactly the events whose timestamp lies in the
\* closed interval [now - 1h, now + 5min]; an earlier timestamp fails with the
\* "too old" reason, a later one with the "in the future" reason.
C16_TemporalWindow ==
    Validated =>
        LET ts == vetoReq.Timestamp
        IN  /\ (now - 60 <= ts /\ ts <= now + 5) <=> TemporalReasons = {}
            /\ ts < now - 60 =>
                  TemporalReasons = {"event timestamp is too old (more than 1 hour in the past)"}
            /\ ts > now + 5 =>
                  TemporalReasons = {"event timestamp is in the future"}

\* C16 witness: an event stamped exactly one hour ago was validated and the temporal
\* check is not among the failed checks
C16_Witness ==
    /\ Validated
    /\ vetoReq.Timestamp = now - 60
    /\ TemporalReasons = {}

\* the reason texts of the amount rule of an event type
AmountReason(a, limit, missing, negative, over) ==
    IF ~IsFloat64(a) THEN missing
    ELSE IF a.val <= 0 THEN negative
    ELSE IF a.val > limit THEN over
    ELSE ""

\* the reason the business rules are claimed to give for the answered request
\* ("" when they pass)
BusinessReason ==
    LET a == vetoReq.Evidence.amount
    IN  CASE vetoReq.Type = "payment_processed" ->
                AmountReason(a, 1000000, "payment amount is missing or invalid",
                             "payment amount must be positive, got:",
                             "payment amount exceeds limit:")
          [] vetoReq.Type = "withdrawal" ->
                AmountReason(a, 10000, "withdrawal amount is missing or invalid",
                             "withdrawal amount must be positive",
                             "withdrawal amount exceeds daily limit:")
          [] OTHER -> ""

\* C9: business_rules is among the failed checks exactly when the event is a
\* payment_processed whose evidence.amount is not a number in (0, 1000000] or a
\* withdrawal whose amount is not a number in (0, 10000], with the reason of the
\* violated rule (missing or invalid, must be positive, exceeds limit / exceeds
\* daily limit); events of every other type pass the check.
C9_BusinessRules ==
    Validated =>
        LET data == vetoResp.Data[1]
            hits == {k \in 1..Len(data.reasons) : data.reasons[k][1] = "business_rules"}
        IN  /\ hits = {} <=> BusinessReason = ""
            /\ \A k \in hits : data.reasons[k][2].text = BusinessReason
            /\ Cardinality(hits) <= 1

\* C9 witness: a withdrawal of 10001 rejected for exceeding the daily limit, and
\* for nothing else
C9_Witness ==
    /\ Validated
    /\ vetoReq.Type = "withdrawal"
    /\ vetoReq.Evidence.amount = Num(10001)
    /\ Len(vetoResp.Data[1].reasons) = 1
    /\ vetoResp.Data[1].reasons[1][2].text = "withdrawal amount exceeds daily limit:"

\* the request has an empty source, no data, a missing or empty type, or no actor id
Malformed ==
    \/ raw.Source = ""
    \/ ~raw.HasData
    \/ raw.Data.type.kind # "string"
    \/ raw.Data.type.val = ""
    \/ raw.Data.user_id.kind # "string"
    \/ raw.Data.user_id.val = ""

\* C20: a POST /ingest request that fails schema validation or normalization is
\* answered 400 and nothing else happens for it: Route is never called, neither
\* handler is invoked, no validation is requested and no update is sent to the store.
C20_RejectedBeforeIO ==
    Malformed =>
        /\ ingestPc = "done" => httpStatus = 400
        /\ ingestPc \in {"idle", "done"}
        /\ event = NoEvent
        /\ routePc[1] = "none"
        /\ integ[1] = "none"
        /\ ctxg[1] = "none"
        /\ ctxCalls[1] = 0
        /\ VetoIdle
        /\ StoreIdle

\* C20 witness: a request whose type is the empty string, which passes
\* ValidateSchema and fails in Normalize, has been answered 400
C20_Witness ==
    /\ raw.Source # ""
    /\ raw.HasData
    /\ raw.Data.type = Str("")
    /\ ingestPc = "done"
    /\ httpStatus = 400
    /\ VetoIdle
    /\ StoreIdle

\* C21 (as claimed): when the validation of the ingested event ended with an internal
\* error (500 of the veto service) and POST /ingest was answered 500 for it, the
\* event is not in the context store.
C21_CriticalNotStored ==
    (/\ ingestPc = "done" /\ httpStatus = 500
     /\ vetoPc = "done" /\ vetoReq = event /\ vetoResp.status = 500
     /\ integErr[1] = UnexpectedStatus /\ retErr[1] = ErrIntegrityFailed
     /\ parentCtx = "active")
    => event.ID \notin DOMAIN store

\* C22 (as claimed): when the validator vetoed the ingested event (412 with
\* failed_checks from the veto service) and the integrity path delivered that veto,
\* the answer of POST /ingest is a 412.
C22_VetoSurfacedAs412 ==
    (/\ ingestPc = "done"
     /\ vetoPc = "done" /\ vetoReq = event /\ vetoResp.status = 412
     /\ integErr[1] = Vetoed /\ retErr[1] = ErrIntegrityFailed)
    => httpStatus = 412

\* the nodes of e's clock for which the table st holds no event (store.go:254-271)
MissingOn(st, e) ==
    {n \in DOMAIN e.VectorClock : CountCausal(st, n, e.VectorClock[n]) = 0}

\* the events table without, and with, the record of the request's own event
StoreWithoutOwn == [id \in DOMAIN store \ {event.ID} |-> store[id]]
StoreWithOwn == UpsertEvent(StoreWithoutOwn, event, now)

\* C27 (as claimed): for an event whose stamped clock has two or more entries the
\* causality verdict of the validation does not depend on whether the event's own
\* Context-Path upsert reached the store before or after the causality queries: the
\* verdict delivered is the one the table without the event's record gives and the
\* one the table with it gives.
C27_VerdictIgnoresOwnUpsert ==
    (/\ vetoPc = "done" /\ vetoReq = event /\ vetoResp.status \in {200, 412}
     /\ ~vetoDbErr
     /\ Cardinality(DOMAIN event.VectorClock) >= 2)
    => /\ (vetoMissing = <<>>) <=> (MissingOn(StoreWithoutOwn, event) = {})
       /\ (vetoMissing = <<>>) <=> (MissingOn(StoreWithOwn, event) = {})

(***************************************************************************)
(* Properties of the context store (checked under SpecStore)               *)
(***************************************************************************)
\* C11 (as claimed): two successive upserts of the same event leave one row for its
\* id, and GetEvent returns after the second the same event, field for field, as
\* after the first.
C11_UpsertIdempotent ==
    \A k \in 1..(Len(updLog) - 1) :
        updLog[k + 1].req = updLog[k].req => updLog[k + 1].got = updLog[k].got

\* every column but processed_at
Columns(e) == [e EXCEPT !.Metadata.ProcessedAt = 0]

\* C34 (as claimed): after an upsert the row of the event's id holds the values of the
\* new event in every column, also when the id was stored before; processed_at is
\* the event's own when it carries one, and is set otherwise.
C34_EveryColumnReplaced ==
    \A k \in 1..Len(updLog) :
        LET req == updLog[k].req
            got == updLog[k].got
        IN  /\ Columns(got) = Columns(req)
            /\ got.Metadata.ProcessedAt # 0
            /\ req.Metadata.ProcessedAt # 0 =>
                  got.Metadata.ProcessedAt = req.Metadata.ProcessedAt

\* an event of the table whose clock entry for node n is at most ts
HasPersisted(table, n, ts) ==
    \E id \in DOMAIN table :
        n \in DOMAIN table[id].VectorClock /\ table[id].VectorClock[n] <= ts

\* C12 (as claimed): a causality query that ran on an unchanging table answers
\* satisfied=true when the table holds, for every (node, ts) of the clock, an event
\* whose clock entry for node is <= ts, and otherwise satisfied=false with
\* missing_nodes being exactly the nodes without such an event.
C12_CausalityAnswer ==
    \A k \in 1..Len(answers) :
        LET a == answers[k]
            lacking == {n \in DOMAIN a.clock : ~HasPersisted(a.table, n, a.clock[n])}
        IN  (a.clean /\ ~a.err) =>
                /\ a.satisfied <=> lacking = {}
                /\ {a.missing[j] : j \in 1..Len(a.missing)} = lacking

\* C13 (as claimed): once the causality query answered satisfied=true for a clock,
\* a later query of the same clock answers satisfied=true, whatever upserts were
\* served in between.
C13_SatisfiedStays ==
    \A j \in 1..Len(answers) : \A k \in (j + 1)..Len(answers) :
        (/\ answers[j].clock = answers[k].clock
         /\ ~answers[j].err /\ ~answers[k].err
         /\ answers[j].clean /\ answers[k].clean
         /\ answers[j].satisfied)
        => answers[k].satisfied

(***************************************************************************)
(* Properties of the vector clock (checked under SpecClock)                *)
(***************************************************************************)
\* C14 (as claimed): Merge is idempotent (merging b into a a second time changes
\* nothing, and a.Merge(a) leaves a unchanged) and commutative (a.Merge(b) and
\* b.Merge(a) give equal clocks), for all int64 counters and differing key sets.
C14_MergeIdempotentCommutative ==
    /\ (mergedAB # <<>> /\ mergedABB # <<>>) => mergedABB[1] = mergedAB[1]
    /\ mergedAA # <<>> => mergedAA[1] = clockA
    /\ (mergedAB # <<>> /\ mergedBA # <<>>) => mergedAB[1] = mergedBA[1]

\* C36 (as claimed): after a.Merge(b) the keys of a are those of the old a and of b,
\* a key of both holds the larger of the two counters, and a key of one clock only
\* holds that clock's counter, whatever its value.
C36_MergeTakesMax ==
    mergedAB # <<>> =>
        /\ DOMAIN mergedAB[1] = DOMAIN clockA \cup DOMAIN clockB
        /\ \A n \in DOMAIN mergedAB[1] :
               mergedAB[1][n] =
                   IF n \notin DOMAIN clockB THEN clockA[n]
                   ELSE IF n \notin DOMAIN clockA THEN clockB[n]
                   ELSE IF clockA[n] < clockB[n] THEN clockB[n] ELSE clockA[n]

\* the idempotent half of C14 alone
MergeIdempotent ==
    /\ (mergedAB # <<>> /\ mergedABB # <<>>) => mergedABB[1] = mergedAB[1]
    /\ mergedAA # <<>> => mergedAA[1] = clockA

\* C15 (as claimed): in the event Normalize returns, the clock's entry for the
\* normalizer's own node is strictly greater than every entry that was merged in
\* from data.vector_clock: the entries of the other nodes, and the own node's
\* incoming entry where it was above the wall clock's reading.
C15_OwnEntryGreatest ==
    event # NoEvent =>
        /\ \A n \in DOMAIN event.VectorClock \ {Self} :
               event.VectorClock[Self] > event.VectorClock[n]
        /\ (/\ Self \in DOMAIN raw.Data.vector_clock
            /\ IsFloat64(raw.Data.vector_clock[Self])
            /\ raw.Data.vector_clock[Self].val > now
            /\ raw.Data.vector_clock[Self].val <= MaxInt64)
           => event.VectorClock[Self] > raw.Data.vector_clock[Self].val

\* the two Normalize calls agree on type, source, actor and evidence
SameContent ==
    /\ eventAgain.Type = event.Type
    /\ eventAgain.Source = event.Source
    /\ eventAgain.Actor = event.Actor
    /\ eventAgain.Evidence = event.Evidence

\* C23 (as claimed): two Normalize calls on the same valid raw event return events
\* with equal type, source, actor, evidence and metadata.correlation_id.
C23_StableFields ==
    eventAgain # NoEvent =>
        /\ SameContent
        /\ eventAgain.Metadata.CorrelationID = event.Metadata.CorrelationID

\* C23 (amended): two Normalize calls on the same valid raw event return events with
\* equal type, source, actor and evidence; metadata.correlation_id is
\* data.correlation_id in both when that is a non-empty string, and otherwise a
\* correlation id generated by each call, different in the two events.
C23_StableFieldsAmended ==
    eventAgain # NoEvent =>
        /\ SameContent
        /\ IF raw.Data.correlation_id.kind = "string" /\ raw.Data.correlation_id.val # ""
              THEN /\ event.Metadata.CorrelationID = raw.Data.correlation_id.val
                   /\ eventAgain.Metadata.CorrelationID = raw.Data.correlation_id.val
              ELSE eventAgain.Metadata.CorrelationID # event.Metadata.CorrelationID

\* C23 witness: a raw event carrying correlation_id "corr-7" was normalized twice, a
\* minute apart, and both events carry it
C23_Witness ==
    /\ eventAgain # NoEvent
    /\ raw.Data.correlation_id = Str("corr-7")
    /\ eventAgain.Metadata.ReceivedAt # event.Metadata.ReceivedAt
    /\ eventAgain.ID # event.ID
    /\ eventAgain.Metadata.CorrelationID = "corr-7"

(***************************************************************************)
(* Properties of the order of clocks (checked under SpecOrder)             *)
(***************************************************************************)
\* C37: x.HappensBefore(y) is true exactly when every key of x is a key of y with a
\* counter in x that is at most the one in y, and some key of x has a strictly
\* smaller counter in x than in y; a key of x that y lacks makes it false.
C37_HappensBeforeIff ==
    \A p \in DOMAIN before :
        LET vc == ClockOf(p[1])
            other == ClockOf(p[2])
        IN  before[p] <=>
                /\ \A n \in DOMAIN vc : n \in DOMAIN other /\ vc[n] <= other[n]
                /\ \E n \in DOMAIN vc : n \in DOMAIN other /\ vc[n] < other[n]

\* a.HappensBefore(b) was answered false for a key b lacks, although a's other key is
\* strictly less in a than in b, and a.HappensBefore(c) was answered true
C37_Witness ==
    /\ <<"a", "b">> \in DOMAIN before
    /\ <<"a", "c">> \in DOMAIN before
    /\ ~before[<<"a", "b">>]
    /\ \E n \in DOMAIN clockA : n \notin DOMAIN clockB
    /\ \E n \in DOMAIN clockA : n \in DOMAIN clockB /\ clockA[n] < clockB[n]
    /\ before[<<"a", "c">>]

\* C38: HappensBefore is irreflexive, asymmetric and transitive; of a.HappensBefore(b),
\* b.HappensBefore(a) and a.IsConcurrent(b) exactly one holds; IsConcurrent is
\* symmetric.
C38_StrictPartialOrder ==
    LET Made(x, y) == <<x, y>> \in DOMAIN before
        ab == <<"a", "b">>
        ba == <<"b", "a">>
    IN  /\ Made("a", "a") => ~before[<<"a", "a">>]
        /\ (Made("a", "b") /\ Made("b", "a")) => ~(before[ab] /\ before[ba])
        /\ (Made("a", "b") /\ Made("b", "c") /\ Made("a", "c")) =>
              ((before[ab] /\ before[<<"b", "c">>]) => before[<<"a", "c">>])
        /\ ab \in DOMAIN concurrent =>
              /\ before[ab] \/ before[ba] \/ concurrent[ab]
              /\ ~(before[ab] /\ before[ba])
              /\ ~(before[ab] /\ concurrent[ab])
              /\ ~(before[ba] /\ concurrent[ab])
        /\ ba \in DOMAIN concurrent => concurrent[ba] = concurrent[ab]

\* a happens before b and b before c, the calls on a and b in both directions and on
\* a and c are made, and a and b are not concurrent
C38_Witness ==
    /\ DOMAIN concurrent = {<<"a", "b">>, <<"b", "a">>}
    /\ before[<<"a", "b">>]
    /\ before[<<"b", "c">>]
    /\ before[<<"a", "c">>]
    /\ ~before[<<"b", "a">>]
    /\ ~concurrent[<<"a", "b">>]

(***************************************************************************)
(* Properties of the data fracture handler (checked under SpecFracture)    *)
(***************************************************************************)
\* the fractures of request r, as a set
FracturesOf(r) == {frac[r].events[k] : k \in 1..Len(frac[r].events)}

\* C17: POST /fracture is fire-and-forget. A request with failed checks can be
\* answered while its write has not finished, the answer is 200 with the same body
\* whatever became of the write, a failed write is logged and its fracture is not
\* written, and the write is attempted at most once.
C17_FireAndForget ==
    \A r \in FractureSlots :
        ~frac[r].batch =>
            /\ frac[r].pc = "handling" => ENABLED LogFractureReturn(r)
            /\ (frac[r].pc = "returned" /\ frac[r].events # <<>>) =>
                   /\ frac[r].status = 200
                   /\ frac[r].count = 1
            /\ frac[r].attempts <= 1
            /\ frac[r].task = "failed" =>
                   /\ frac[r].logged
                   /\ FracturesOf(r) \cap written = {}

\* C17 witness: a POST /fracture was answered 200, its write failed and was logged
C17_Witness ==
    \E r \in FractureSlots :
        /\ ~frac[r].batch
        /\ frac[r].status = 200
        /\ frac[r].task = "failed"
        /\ frac[r].logged
        /\ frac[r].attempts = 1

\* C18 (as claimed): once the background task of a request that was answered 200 has
\* ended, and the bucket was reachable all along, every fracture of the request has
\* been written.
C18_AcknowledgedIsWritten ==
    \A r \in FractureSlots :
        (/\ frac[r].status = 200
         /\ frac[r].task \in {"done", "failed"}
         /\ bucket = "up")
        => FracturesOf(r) \subseteq written

\* C19 (as claimed): the object of each hour holds a line for every fracture that was
\* ever written to that hour.
C19_AppendOnly ==
    \A f \in written :
        /\ generateObjectPath(f.Timestamp) \in DOMAIN archive
        /\ \E k \in 1..Len(archive[generateObjectPath(f.Timestamp)]) :
               archive[generateObjectPath(f.Timestamp)][k] = f

\* C35 (as claimed): every fracture record, of a single and of a batch write, lies in
\* the object of the date and hour of the rejected event's own timestamp.
C35_GroupedByEventHour ==
    \A p \in DOMAIN archive :
        \A k \in 1..Len(archive[p]) :
            p = generateObjectPath(archive[p][k].Event.Timestamp)

(***************************************************************************)
(* Properties of RouteBatch (checked under SpecBatch)                      *)
(***************************************************************************)
\* the Route calls in progress: started and not yet returned
RoutesInProgress == {i \in Slots : routePc[i] \notin {"none", "returned"}}

\* C28: during RouteBatch(events, max_concurrent) at most max_concurrent Route calls
\* are in progress at any moment, at most 10 when max_concurrent <= 0, however many
\* events the batch has.
C28_ConcurrencyBounded ==
    Cardinality(RoutesInProgress) <=
        (IF maxConcurrent <= 0 THEN DefaultConcurrency ELSE maxConcurrent)

\* a batch of more events than max_concurrent: a Route call is in progress, the
\* semaphore is full and another goroutine waits for it
C28_Witness ==
    /\ maxConcurrent > 0
    /\ Len(events) > maxConcurrent
    /\ Cardinality(RoutesInProgress) = maxConcurrent
    /\ semaphore = maxConcurrent
    /\ \E i \in Slots : workerPc[i] = "acquire"

\* every goroutine the Route calls of the batch started has terminated
GoroutinesDone ==
    \A i \in 1..Len(events) : integ[i] = "exited" /\ ctxg[i] = "exited"

\* C29: every goroutine Route started terminates once its handler call returned,
\* also after Route itself returned on timeout or rejection: the integrity
\* goroutine's send always finds room in the channel, whether or not Route still
\* receives; and RouteBatch returns, provided every handler call returns.
C29_GoroutinesTerminate ==
    /\ [](\A i \in Slots : integ[i] = "ready" => Len(integrityDone[i]) < IntegrityDoneCap)
    /\ <>[](batchPc = "returned" /\ GoroutinesDone)

\* RouteBatch has returned, a Route call of it had returned on timeout before its
\* integrity goroutine sent the result, and every goroutine has terminated
C29_Witness ==
    /\ batchPc = "returned"
    /\ GoroutinesDone
    /\ \E i \in 1..Len(events) :
          /\ retErr[i] = ErrTimeout /\ firedFirst[i]
          /\ integrityDone[i] # <<>>

\* C8: when RouteBatch returns, the Route call of every event has returned and
\* results[i] is the non-nil result allocated by the Route call of events[i].
C8_BatchPositional ==
    batchPc = "returned" =>
        \A i \in 1..Len(events) :
            /\ routePc[i] = "returned"
            /\ results[i] = <<i>>
            /\ result[results[i][1]].Event = events[i]

\* C8 witness: a full batch returned whose first event was rejected and whose
\* last event was accepted
C8_Witness ==
    /\ batchPc = "returned"
    /\ Len(events) = NumEvents
    /\ retErr[1] = ErrIntegrityFailed
    /\ retErr[NumEvents] = NoErr

====
